---- MODULE Spec2Model ----
(***************************************************************************)
(* Concept resolution and fact reconciliation of the EDGAR collector       *)
(* scripts (financial_data/Alternative_research).                          *)
(*                                                                         *)
(* Python values are represented as follows.                               *)
(*   - a concept identifier (tag) is a string; Chars(tag) is the sequence  *)
(*     of its one-character substrings, which is what slicing and          *)
(*     iterating a Python str yields;                                      *)
(*   - a dict is a function whose DOMAIN is the set of its keys;           *)
(*   - an Optional number is NoneVal or Num(n) (tagged records);           *)
(*   - a "filed" or "start" date is a natural number, 0 standing for an    *)
(*     absent (None / empty) date; ISO dates compare like numbers;         *)
(*   - an optional dict (chosen, primary) is a sequence of length 0 or 1.  *)
(* The pass-through fields fp, end, accn of a SEC row never influence      *)
(* control flow in final data extractor.py and table form.py and are left  *)
(* out of their rows and facts; TABLE SIMPLE.py matches on accn and fp,    *)
(* and its rows carry them.                                                *)
(***************************************************************************)
EXTENDS Integers, Sequences, FiniteSets, TLC

\* ------------------------------------------------------------------ bounds
MaxRows  == 3      \* longest row sequence handed to a selection function
MaxFiled == 3      \* filing dates are 1..MaxFiled
MaxAmount == 2     \* the amounts handed to a derivation are -MaxAmount..MaxAmount
MaxDerivations == 2    \* a period is derived at most this many times
MaxTagCalls == 2   \* a run asks for the reported tags of at most this many entities

\* ------------------------------------------------------- program constants
YEAR_CUTOFF == 2014

\* ------------------------------------------------------------ Python values
NoneVal == [type |-> "none", n |-> 0]
Num(n)  == [type |-> "num",  n |-> n]
IsNumber(v) == v.type = "num"

Put(d, k, v) == [x \in (DOMAIN d) \cup {k} |-> IF x = k THEN v ELSE d[x]]
EmptyDict    == [x \in {} |-> 0]

Min(a, b) == IF a < b THEN a ELSE b
Abs(a)    == IF a < 0 THEN 0 - a ELSE a

BoundedSeq(S, n) == UNION {[1..k -> S] : k \in 0..n}

\* ----------------------------------------------------------------- metrics
EPS_METRICS      == {"EarningsPerShareBasic", "EarningsPerShareDiluted"}
DEFAULT_UNIT     == "USD"
DURATION_METRICS == {"Revenues", "NetIncomeLoss", "EarningsPerShareBasic",
                     "EarningsPerShareDiluted", "OperatingIncomeLoss", "GrossProfit",
                     "ResearchAndDevelopmentExpense",
                     "SellingGeneralAndAdministrativeExpense",
                     "NetCashProvidedByUsedInOperatingActivities",
                     "PaymentsToAcquirePropertyPlantAndEquipment",
                     "CostOfRevenue", "OperatingExpenses", "IncomeTaxExpenseBenefit"}
INSTANT_METRICS  == {"Assets", "Liabilities", "StockholdersEquity",
                     "CashAndCashEquivalentsAtCarryingValue", "ShortTermInvestments",
                     "AccountsReceivableNetCurrent", "LongTermDebt"}

PREFERRED_UNITS(metric) == IF metric \in EPS_METRICS THEN "USD/shares" ELSE "None"

METRIC_PERIOD_TYPE(metric) ==
    IF metric \in DURATION_METRICS THEN "duration"
    ELSE IF metric \in INSTANT_METRICS THEN "instant" ELSE "None"

expected_period_type(metric) == METRIC_PERIOD_TYPE(metric)

unit_ok_for_metric(metric, uom) ==
    LET want == IF PREFERRED_UNITS(metric) # "None" THEN PREFERRED_UNITS(metric)
                ELSE DEFAULT_UNIT
    IN  uom = want

\* ------------------------------------------------------------ rows, filters
\* A SEC row: fy, form, filed, start (0 = absent), uom, val, accn.
RowPeriodType(r) == IF r.start # 0 THEN "duration" ELSE "instant"

Since2014Ok(r) == r.fy # 0 /\ r.fy >= YEAR_CUTOFF /\ r.form \in {"10-K", "10-Q"}

RECURSIVE EntriesLoop(_, _)
EntriesLoop(rows, i) ==
    IF i > Len(rows) THEN <<>>
    ELSE IF Since2014Ok(rows[i]) THEN <<rows[i]>> \o EntriesLoop(rows, i + 1)
    ELSE EntriesLoop(rows, i + 1)

entries_since_2014(rows) == EntriesLoop(rows, 1)

\* the loop body without the unit test
MetricRowOkAnyUnit(metric, r) ==
    LET et == expected_period_type(metric)
    IN  ~(et # "None" /\ RowPeriodType(r) # et)

\* the body of the loop of filter_rows_for_metric: TRUE when r is appended
MetricRowOk(metric, r) ==
    LET et == expected_period_type(metric)
    IN  /\ ~(et # "None" /\ RowPeriodType(r) # et)
        /\ unit_ok_for_metric(metric, r.uom)

RECURSIVE FilterLoop(_, _, _)
FilterLoop(metric, rows, i) ==
    IF i > Len(rows) THEN <<>>
    ELSE IF MetricRowOk(metric, rows[i]) THEN <<rows[i]>> \o FilterLoop(metric, rows, i + 1)
    ELSE FilterLoop(metric, rows, i + 1)

filter_rows_for_metric(metric, rows) == FilterLoop(metric, rows, 1)

\* one iteration of the loop of choose_latest_filed_per_fy
ChooseStep(by_fy, r) ==
    IF r.fy \notin DOMAIN by_fy THEN Put(by_fy, r.fy, r)
    ELSE LET prev == by_fy[r.fy]
         IN  IF r.form = "10-K" /\ prev.form # "10-K" THEN Put(by_fy, r.fy, r)
             ELSE IF r.filed > prev.filed THEN Put(by_fy, r.fy, r)
             ELSE by_fy

RECURSIVE ChooseLoop(_, _, _)
ChooseLoop(rows, i, by_fy) ==
    IF i > Len(rows) THEN by_fy
    ELSE ChooseLoop(rows, i + 1, ChooseStep(by_fy, rows[i]))

choose_latest_filed_per_fy(rows) == ChooseLoop(rows, 1, EmptyDict)

\* one iteration of the loop of pick_latest_filed_per_fy_form
PickStep(best, r) ==
    IF r.form \notin {"10-K", "10-Q"} THEN best
    ELSE LET key == <<r.fy, r.form>>
         IN  IF key \notin DOMAIN best \/ r.filed > best[key].filed
             THEN Put(best, key, r) ELSE best

RECURSIVE PickLoop(_, _, _)
PickLoop(rows, i, best) ==
    IF i > Len(rows) THEN best
    ELSE PickLoop(rows, i + 1, PickStep(best, rows[i]))

pick_latest_filed_per_fy_form(rows) == PickLoop(rows, 1, EmptyDict)

\* ------------------------------------------------- strings and the taxonomy
\* The concept identifiers of the model's taxonomy.  Real us-gaap names are
\* long; the model's candidates are two characters long so that iterating one
\* stays small.
CONCEPTS == {"AB", "BA", "BB"}

\* str iteration / slicing: the one-character substrings of a str, in order
Chars(s) ==
    CASE s = "AB" -> <<"A", "B">>
      [] s = "BA" -> <<"B", "A">>
      [] s = "BB" -> <<"B", "B">>
      [] s = "ABA" -> <<"A", "B", "A">>
      [] OTHER    -> <<>>

\* Python's str order on the identifiers the model sorts
TAG_ORDER == <<"AB", "BA", "BB">>

RECURSIVE SortedTags(_, _)
\* sorted(tags): the tags of set S in ascending str order
SortedTags(S, i) ==
    IF i > Len(TAG_ORDER) THEN <<>>
    ELSE IF TAG_ORDER[i] \in S THEN <<TAG_ORDER[i]>> \o SortedTags(S, i + 1)
    ELSE SortedTags(S, i + 1)

\* label/definition texts are token sequences
STOP_WORDS == {"of"}
Lower(w)   == IF w = "Net" THEN "net" ELSE w

RECURSIVE NormalizeLoop(_, _)
NormalizeLoop(txt, i) ==
    IF i > Len(txt) THEN <<>>
    ELSE IF Lower(txt[i]) \in STOP_WORDS THEN NormalizeLoop(txt, i + 1)
    ELSE <<Lower(txt[i])>> \o NormalizeLoop(txt, i + 1)

\* helper._normalize: lowercase, drop stop words
_normalize(txt) == NormalizeLoop(txt, 1)

\* ---------------------------------------------------------------- Resolver
\* Cosine similarities are fixed-point: SCORE_ONE stands for 1.0.
ScoreSteps == 2
SCORE_ONE  == ScoreSteps

RECURSIVE TagListLoop(_, _, _)
\* the loop "for t in reported: if t in texts": the tags kept, in order
TagListLoop(reported, texts, i) ==
    IF i > Len(reported) THEN <<>>
    ELSE IF reported[i] \in DOMAIN texts
         THEN <<reported[i]>> \o TagListLoop(reported, texts, i + 1)
         ELSE TagListLoop(reported, texts, i + 1)

\* What TfidfVectorizer + cosine_similarity (sklearn, outside the repository)
\* may answer for a corpus: any score per candidate, and 1.0 for a candidate
\* whose normalised text is the target's.
SimChoices(texts, target, tag_list) ==
    {f \in [1..Len(tag_list) -> 0..SCORE_ONE] :
        \A i \in 1..Len(tag_list) :
            (/\ _normalize(texts[tag_list[i]]) = _normalize(texts[target])
             /\ _normalize(texts[target]) # <<>>) => f[i] = SCORE_ONE}

RECURSIVE InsertDesc(_, _, _)
\* e placed into the descending list srt behind every entry scoring >= e
InsertDesc(srt, e, i) ==
    IF i > Len(srt) THEN Append(srt, e)
    ELSE IF srt[i].score >= e.score THEN InsertDesc(srt, e, i + 1)
    ELSE SubSeq(srt, 1, i - 1) \o <<e>> \o SubSeq(srt, i, Len(srt))

RECURSIVE SortDescLoop(_, _, _)
SortDescLoop(pairs, i, srt) ==
    IF i > Len(pairs) THEN srt
    ELSE SortDescLoop(pairs, i + 1, InsertDesc(srt, pairs[i], 1))

\* an ascending sort read backwards: equal scores come out in reversed order
SortedAscReversed(tag_list, sims) ==
    SortDescLoop([i \in 1..Len(tag_list) |->
                     [tag |-> tag_list[Len(tag_list) + 1 - i],
                      score |-> sims[Len(tag_list) + 1 - i]]],
                 1, <<>>)

\* sorted(zip(tag_list, sims), key=score, reverse=True): Python's sort is
\* stable, also with reverse=True
SortedByScoreDesc(tag_list, sims) ==
    SortDescLoop([i \in 1..Len(tag_list) |-> [tag |-> tag_list[i], score |-> sims[i]]],
                 1, <<>>)

Ranking(tag_list, sims, top_n) ==
    LET srt == SortedByScoreDesc(tag_list, sims)
    IN  SubSeq(srt, 1, Min(Len(srt), top_n + 1))

\* the tags of a ranking, in ranked order
RankedTags(ranking) == [i \in 1..Len(ranking) |-> ranking[i].tag]

\* top_n: int = 5
DEFAULT_TOP_N == 5

\* the return statement of choose_revenue_substitute
ResolverReturn(ranking) ==
    IF ranking[1].score < SCORE_ONE
    THEN [kind |-> "str", value |-> ranking[1].tag, ranking |-> ranking]
    ELSE IF Len(ranking) >= 2
    THEN [kind |-> "str", value |-> ranking[2].tag, ranking |-> ranking]
    ELSE [kind |-> "IndexError", value |-> "", ranking |-> ranking]

\* the function without the test of lines 31-33: an empty ranking is indexed
choose_revenue_substitute_unguarded(texts, reported, target, sims, top_n) ==
    IF target \notin DOMAIN texts
    THEN [kind |-> "KeyError", value |-> "", ranking |-> <<>>]
    ELSE LET tag_list == TagListLoop(reported, texts, 1)
         IN  IF Len(tag_list) = 0
             THEN [kind |-> "IndexError", value |-> "", ranking |-> <<>>]
             ELSE ResolverReturn(Ranking(tag_list, sims, top_n))

\* choose_revenue_substitute(CIK, target_label, top_n), given what
\* taxo_texts() and tags_list(CIK) returned and the similarities sklearn
\* computed.  kind is "str" (a tag is returned), "None", or the exception.
choose_revenue_substitute(texts, reported, target, sims, top_n) ==
    IF target \notin DOMAIN texts
    THEN [kind |-> "KeyError", value |-> "", ranking |-> <<>>]
    ELSE LET tag_list == TagListLoop(reported, texts, 1)
         IN  IF Len(tag_list) = 0
             THEN [kind |-> "None", value |-> "", ranking |-> <<>>]
             ELSE ResolverReturn(Ranking(tag_list, sims, top_n))


\* semantic_similarity(texts, reported, target_tag, n) of "2 methods.py".
\* With no candidate, sklearn is handed an empty matrix: empty_kind is what
\* it does with it, raise ValueError or answer no score.
semantic_similarity(texts, reported, target, sims, n, empty_kind) ==
    IF target \notin DOMAIN texts
    THEN [kind |-> "KeyError", value |-> "", ranking |-> <<>>]
    ELSE LET tags == TagListLoop(reported, texts, 1)
         IN  IF Len(tags) = 0
             THEN [kind |-> empty_kind, value |-> "", ranking |-> <<>>]
             ELSE [kind |-> "list", value |-> "", ranking |-> Ranking(tags, sims, n - 1)]

\* choose_revenue_substitute_by_descendants(CIK, target_label, top_n), given
\* what taxo_texts() returned; closest is sorted_tags[0][0] as the walk over
\* the presentation forest leaves it, "" when sorted_tags is empty or the
\* target is in no network
choose_revenue_substitute_by_descendants(texts, target, closest) ==
    IF target \notin DOMAIN texts
    THEN [kind |-> "None", value |-> "", ranking |-> <<>>]
    ELSE IF closest = ""
    THEN [kind |-> "None", value |-> "", ranking |-> <<>>]
    ELSE [kind |-> "str", value |-> closest, ranking |-> <<>>]


\* --------------------------------------------- granularity_difference
\* the characters of an identifier the model can split, the identifier
\* itself otherwise; re.findall(r"[A-Z][a-z0-9]*", tag) gives the same parts
\* for the model's identifiers
KeyChars(k) == IF Chars(k) = <<>> THEN <<k>> ELSE Chars(k)

RECURSIVE PrefixLoop(_, _, _)
\* lines 137-139: the depth of the longest proper prefix "".join(parts[:i])
\* that has one, i from len(parts)-1 down to 1; <<>> for None
PrefixLoop(depths, parts, i) ==
    IF i < 1 THEN <<>>
    ELSE LET hit == {k \in DOMAIN depths : KeyChars(k) = SubSeq(parts, 1, i)}
         IN  IF hit # {} THEN <<depths[CHOOSE k \in hit : TRUE]>>
             ELSE PrefixLoop(depths, parts, i - 1)

\* line 141: sorted(depths.values())[len(depths)//2]
MedianDepth(depths) ==
    LET idx == Cardinality(DOMAIN depths) \div 2
    IN  CHOOSE v \in {depths[k] : k \in DOMAIN depths} :
           /\ Cardinality({k \in DOMAIN depths : depths[k] < v}) <= idx
           /\ idx < Cardinality({k \in DOMAIN depths : depths[k] <= v})

\* a reference depth that skips the prefixes and goes to the median
TargetRefNoPrefix(depths, target) ==
    IF target \in DOMAIN depths THEN <<depths[target]>>
    ELSE IF DOMAIN depths # {} THEN <<MedianDepth(depths)>>
    ELSE <<>>

\* lines 133-141: ref, <<>> for None
TargetRef(depths, target) ==
    IF target \in DOMAIN depths THEN <<depths[target]>>
    ELSE LET parts == KeyChars(target)
             pre   == PrefixLoop(depths, parts, Len(parts) - 1)
         IN  IF pre # <<>> THEN pre
             ELSE IF DOMAIN depths # {} THEN <<MedianDepth(depths)>>
             ELSE <<>>

RECURSIVE InsertByGap(_, _, _)
\* e placed into the ascending list srt behind every entry with gap <= e's
InsertByGap(srt, e, i) ==
    IF i > Len(srt) THEN Append(srt, e)
    ELSE IF srt[i].gap <= e.gap THEN InsertByGap(srt, e, i + 1)
    ELSE SubSeq(srt, 1, i - 1) \o <<e>> \o SubSeq(srt, i, Len(srt))

RECURSIVE SortByGapLoop(_, _, _, _, _)
\* sorted(((t, abs(depths[t]-ref)) for t in reported if t in depths),
\* key=gap): order is the order in which the set reported is iterated
SortByGapLoop(depths, ref, order, i, srt) ==
    IF i > Len(order) THEN srt
    ELSE IF order[i] \in DOMAIN depths
    THEN SortByGapLoop(depths, ref, order, i + 1,
                       InsertByGap(srt, [tag |-> order[i],
                                         gap |-> Abs(depths[order[i]] - ref)], 1))
    ELSE SortByGapLoop(depths, ref, order, i + 1, srt)

\* a ranking over every concept with a depth, reported or not
granularity_over_known_depths(depths, order, target, n) ==
    LET ref == TargetRef(depths, target)
        all == CHOOSE f \in [1..Cardinality(DOMAIN depths) -> DOMAIN depths] :
                  \A i, j \in 1..Cardinality(DOMAIN depths) : f[i] = f[j] => i = j
    IN  IF ref = <<>> THEN <<>>
        ELSE LET srt == SortByGapLoop(depths, ref[1], all, 1, <<>>)
             IN  SubSeq(srt, 1, Min(Len(srt), n))

\* granularity_difference(depths, reported, target_tag, n), with the
\* iteration order of the set reported
granularity_difference(depths, order, target, n) ==
    LET ref == TargetRef(depths, target)
    IN  IF ref = <<>> THEN <<>>
        ELSE LET srt == SortByGapLoop(depths, ref[1], order, 1, <<>>)
             IN  SubSeq(srt, 1, Min(Len(srt), n))

\* ------------------------------------------- structural_similarity.py
\* A tree is a dict: key -> list.  A result is [kind, value]: kind "list",
\* "str", "int", "None", "inf", or the exception; "diverges" when the loop
\* does not end.
RECURSIVE AncestorsLoop(_, _, _, _)
\* lines 66-68: while current in tree: append, current = tree.get(current, [None])[0]
AncestorsLoop(tree, current, ancestors, fuel) ==
    IF current \notin DOMAIN tree THEN [kind |-> "list", value |-> ancestors]
    ELSE IF fuel = 0 THEN [kind |-> "diverges", value |-> <<>>]
    ELSE IF Len(tree[current]) = 0 THEN [kind |-> "IndexError", value |-> <<>>]
    ELSE AncestorsLoop(tree, tree[current][1], Append(ancestors, current), fuel - 1)

\* get_ancestors(tag, tree); a walk longer than the number of keys repeats
\* a key and never ends
get_ancestors(tag, tree) ==
    AncestorsLoop(tree, tag, <<>>, Cardinality(DOMAIN tree))

RECURSIVE FirstCommon(_, _, _)
\* lines 81-84: the first entry of ancestors1 that is in common_ancestors
FirstCommon(ancestors1, common, i) ==
    IF i > Len(ancestors1) THEN [kind |-> "None", value |-> ""]
    ELSE IF ancestors1[i] \in common THEN [kind |-> "str", value |-> ancestors1[i]]
    ELSE FirstCommon(ancestors1, common, i + 1)

\* find_lca(tag1, tag2, tree)
find_lca(tag1, tag2, tree) ==
    LET a1 == get_ancestors(tag1, tree)
        a2 == get_ancestors(tag2, tree)
    IN  IF a1.kind # "list" THEN [kind |-> a1.kind, value |-> ""]
        ELSE IF a2.kind # "list" THEN [kind |-> a2.kind, value |-> ""]
        ELSE FirstCommon(a1.value,
                         {a1.value[i] : i \in 1..Len(a1.value)}
                            \cap {a2.value[i] : i \in 1..Len(a2.value)}, 1)

RECURSIVE distance_from_lca(_, _, _)
\* lines 94-100; lca is on the walk from tag, which find_lca has followed
distance_from_lca(tag, lca, tree) ==
    IF tag = lca THEN 0 ELSE 1 + distance_from_lca(tree[tag][1], lca, tree)

\* calculate_distance(tag1, tag2, tree)
calculate_distance(tag1, tag2, tree) ==
    LET lca == find_lca(tag1, tag2, tree)
    IN  IF lca.kind = "None" THEN [kind |-> "inf", value |-> 0]
        ELSE IF lca.kind # "str" THEN [kind |-> lca.kind, value |-> 0]
        ELSE [kind |-> "int",
              value |-> distance_from_lca(tag1, lca.value, tree)
                        + distance_from_lca(tag2, lca.value, tree)]

RECURSIVE get_descendants(_, _)
RECURSIVE DescendantsOfChildren(_, _, _)
\* lines 114-116: for child in children: append(child); recursive_traversal(child)
DescendantsOfChildren(children, i, tree) ==
    IF i > Len(children) THEN <<>>
    ELSE <<children[i]>> \o get_descendants(children[i], tree)
         \o DescendantsOfChildren(children, i + 1, tree)

\* get_descendants(tag, tree)
get_descendants(tag, tree) ==
    DescendantsOfChildren(IF tag \in DOMAIN tree THEN tree[tag] ELSE <<>>, 1, tree)

\* lines 160-175: sorted_tags[0][0], "" when sorted_tags is empty; found
\* tells whether get_network_for_target_label returned a network
ClosestDescendant(texts, forest, found, target) ==
    IF ~found THEN ""
    ELSE LET desc    == get_descendants(target, forest)
             idxs    == {i \in 1..Len(desc) : desc[i] \in DOMAIN texts}
             dist(i) == LET r == calculate_distance(target, desc[i], forest)
                        IN  IF r.kind = "int" THEN r.value
                            ELSE (2 * Cardinality(DOMAIN forest)) + 1
         IN  IF idxs = {} THEN ""
             ELSE desc[CHOOSE i \in idxs :
                          \A j \in idxs : \/ dist(i) < dist(j)
                                          \/ (dist(i) = dist(j) /\ i <= j)]

\* ------------------------------------------------------------------- state
VARIABLES
    prog,                   \* the script or function this run executes
    pc,                     \* position in it
    texts,                  \* what taxo_texts() returns: tag -> text
    reported,               \* what tags_list(CIK) returns: a sorted list
    metrics,                \* the METRICS list the run iterates
    mi,                     \* index of the metric in work
    alt_tags,               \* the list the alternatives loop iterates
    ai,                     \* index into alt_tags
    primary_by_metric_fy,   \* metric -> fy -> fact
    alt_by_metric_fylist,   \* metric -> fy -> list of facts
    data,                   \* financials_by_fy: fy -> row
    prim,                   \* table form: (fy, form) -> primary fact of the metric
    keys,                   \* table form: the (fy, form) slots of the metric
    missing_keys,           \* table form: the slots handed to the alternatives
    substitute_cache,       \* table form: metric -> cached alternative tags
    alt_rows_by_tag,        \* table form: alt tag -> (fy, form) -> fact
    filled,                 \* table form: what get_first_available_alternative returns
    ret_to,                 \* table form: the call site it returns to
    rows_out,               \* table form: the rows emitted so far
    fetched,                \* the tags requested from the filings API, in order
    chooser_calls,          \* the metrics choose_revenue_substitute was called for
    ranked,                 \* metric -> the tags of the ranking the Resolver built
    primary_fys,            \* metric -> the fiscal years (table form: slots) for
                            \* which the metric's own response held an eligible row
    filing_rows,            \* TABLE SIMPLE: the filings of the ticker, in dict order
    fi,                     \* TABLE SIMPLE: index of the filing the fill loop is at
    sub_call,               \* TABLE SIMPLE: the last substitute_missing_value call
    rows_in,                \* the rows handed to the selection functions
    by_fy_out,              \* what choose_latest_filed_per_fy returned for them
    best_out,               \* what pick_latest_filed_per_fy_form returned for them
    target_in,              \* the target_label handed to the Resolver
    top_n_in,               \* the top_n handed to the Resolver
    returned,               \* what the Resolver call ended with
    period_vals,            \* the values of one period, as a derivation loop holds them
    derived_log,            \* what the successive derivations of the period produced
    cache_file,             \* ../.cache/aapl_facts.json: absent, or the document in it
    remote,                 \* the company-facts documents of the filings API, per CIK
    depths_in,              \* the depths handed to granularity_difference
    arg_in                  \* what a library function called alone is handed

fdeVars == <<primary_by_metric_fy, alt_by_metric_fylist, data>>
tfVars  == <<prim, keys, missing_keys, substitute_cache, alt_rows_by_tag, filled,
             ret_to, rows_out>>
tsVars  == <<filing_rows, fi, sub_call>>
fnVars  == <<rows_in, by_fy_out, best_out, target_in, top_n_in, returned>>
envVars == <<prog, texts, reported, metrics>>
libVars == <<period_vals, derived_log>>
tagVars == <<cache_file, remote, depths_in, arg_in>>

vars == <<prog, pc, texts, reported, metrics, mi, alt_tags, ai,
          primary_by_metric_fy, alt_by_metric_fylist, data,
          prim, keys, missing_keys, substitute_cache, alt_rows_by_tag, filled,
          ret_to, rows_out, fetched, chooser_calls, ranked, primary_fys,
          filing_rows, fi, sub_call,
          rows_in, by_fy_out, best_out, target_in, top_n_in, returned,
          period_vals, derived_log, cache_file, remote, depths_in, arg_in>>

\* ------------------------------------------------------- the filings inputs
OCF   == "NetCashProvidedByUsedInOperatingActivities"
CAPEX == "PaymentsToAcquirePropertyPlantAndEquipment"

\* Rows the filings API may return to the reconciliation scripts.
BaseRow(y, f) == [fy |-> y, form |-> "10-K", filed |-> f, start |-> 1,
                  uom |-> "USD", val |-> Num(1)]

\* rows that fail one eligibility condition of a duration/USD metric
DefectRows ==
    {[BaseRow(YEAR_CUTOFF, 1) EXCEPT !.fy = YEAR_CUTOFF - 1],
     [BaseRow(YEAR_CUTOFF, 1) EXCEPT !.form = "8-K"],
     [BaseRow(YEAR_CUTOFF, 1) EXCEPT !.start = 0],
     [BaseRow(YEAR_CUTOFF, 1) EXCEPT !.uom = "USD/shares"]}

\* rows answered for the tag of the first metric: three fiscal years, a
\* quarterly row, a row without a value
PrimaryRows ==
    {BaseRow(y, 1) : y \in YEAR_CUTOFF..(YEAR_CUTOFF + 2)}
    \cup {[BaseRow(YEAR_CUTOFF, 2) EXCEPT !.form = "10-Q"],
          [BaseRow(YEAR_CUTOFF, 1) EXCEPT !.val = NoneVal]}
    \cup DefectRows

\* rows answered for an alternative tag: two fiscal years, two filing dates,
\* the value restated with the later filing
AltRows ==
    {[BaseRow(y, f) EXCEPT !.val = Num(f)] :
        y \in YEAR_CUTOFF..(YEAR_CUTOFF + 1), f \in 1..2}
    \cup DefectRows

\* rows answered for the tag of the second metric
FewRows == {BaseRow(y, 1) : y \in YEAR_CUTOFF..(YEAR_CUTOFF + 2)}
           \cup {[BaseRow(YEAR_CUTOFF + 1, 1) EXCEPT !.start = 0]}

\* What fetch_concept may answer in a reconciliation run.  The metric in
\* work first gets the richer answers: up to two rows for the metric itself
\* and up to one row for each alternative tag.  The second metric gets at most
\* one row, and nothing (a 404, or the retries exhausted) for its alternative
\* tags; its part in the first metric's row is the fiscal years it adds.
PrimaryResponses(i) ==
    IF i = 1
    THEN {<<>>} \cup {<<r>> : r \in PrimaryRows}
         \cup {<<r1, r2>> : r1 \in PrimaryRows, r2 \in PrimaryRows}
    ELSE {<<>>} \cup {<<r>> : r \in FewRows}

AltResponses(i) ==
    IF i = 1 THEN {<<>>} \cup {<<r>> : r \in AltRows} ELSE {<<>>}

\* ----------------------------------------------- final data extractor.py
ALT_LIMIT == 24

sec_row_to_fact(tag, r) ==
    [tag |-> tag, value |-> r.val, unit |-> r.uom, fy |-> r.fy, form |-> r.form,
     filed |-> r.filed, start |-> r.start]

frequency_from_form(form) ==
    IF form = "10-K" THEN "annual" ELSE IF form = "10-Q" THEN "quarterly" ELSE "None"

Get(d, k, default) == IF k \in DOMAIN d THEN d[k] ELSE default

RECURSIVE InsertByFiled(_, _, _)
InsertByFiled(srt, e, i) ==
    IF i > Len(srt) THEN Append(srt, e)
    ELSE IF srt[i].filed <= e.filed THEN InsertByFiled(srt, e, i + 1)
    ELSE SubSeq(srt, 1, i - 1) \o <<e>> \o SubSeq(srt, i, Len(srt))

RECURSIVE SortByFiledLoop(_, _, _)
\* sorted(cand, key=filed)
SortByFiledLoop(cand, i, srt) ==
    IF i > Len(cand) THEN srt
    ELSE SortByFiledLoop(cand, i + 1, InsertByFiled(srt, cand[i], 1))

\* the first stored alternative of the year instead of the latest filed
PickFirstStored(alts_fy_map, fy) ==
    LET cand == Get(alts_fy_map, fy, <<>>)
    IN  IF Len(cand) = 0 THEN <<>> ELSE <<cand[1]>>

\* pick_best_alternative_for_fy: <<>> for None, else <<fact>>
pick_best_alternative_for_fy(alts_fy_map, fy) ==
    LET cand == Get(alts_fy_map, fy, <<>>)
    IN  IF Len(cand) = 0 THEN <<>>
        ELSE LET srt == SortByFiledLoop(cand, 1, <<>>) IN <<srt[Len(srt)]>>

RECURSIVE SortedInts(_)
\* sorted(S) for a finite set of integers
SortedInts(S) ==
    IF S = {} THEN <<>>
    ELSE LET m == CHOOSE x \in S : \A y \in S : x <= y
         IN  <<m>> \o SortedInts(S \ {m})

BIG_DIST == 1000000000

RECURSIVE NearestLoop(_, _, _, _, _)
\* the loop of nearest_fy_with_fact; best = 0 stands for None
NearestLoop(pool, i, fy, best, bestdist) ==
    IF i > Len(pool) THEN best
    ELSE LET k == pool[i]
             d == Abs(k - fy)
         IN  IF k = fy THEN NearestLoop(pool, i + 1, fy, best, bestdist)
             ELSE IF d < bestdist THEN NearestLoop(pool, i + 1, fy, k, d)
             ELSE NearestLoop(pool, i + 1, fy, best, bestdist)

RECURSIVE NearestLoopLate(_, _, _, _, _)
\* the loop with d <= bestdist: of two years at the same distance the later
NearestLoopLate(pool, i, fy, best, bestdist) ==
    IF i > Len(pool) THEN best
    ELSE LET k == pool[i]
             d == Abs(k - fy)
         IN  IF k = fy THEN NearestLoopLate(pool, i + 1, fy, best, bestdist)
             ELSE IF d <= bestdist THEN NearestLoopLate(pool, i + 1, fy, k, d)
             ELSE NearestLoopLate(pool, i + 1, fy, best, bestdist)

NearestLaterWins(fy, fy_to_fact) ==
    IF DOMAIN fy_to_fact = {} THEN 0
    ELSE NearestLoopLate(SortedInts(DOMAIN fy_to_fact), 1, fy, 0, BIG_DIST)

\* nearest_fy_with_fact(fy, fy_to_fact): 0 for None
nearest_fy_with_fact(fy, fy_to_fact) ==
    IF DOMAIN fy_to_fact = {} THEN 0
    ELSE NearestLoop(SortedInts(DOMAIN fy_to_fact), 1, fy, 0, BIG_DIST)

\* {"source": source, **chosen}, with carry_from_fy = 0 when the key is absent
Chosen(source, fact, carry) ==
    [source |-> source, carry_from_fy |-> carry, tag |-> fact.tag,
     value |-> fact.value, unit |-> fact.unit, fy |-> fact.fy, form |-> fact.form,
     filed |-> fact.filed, start |-> fact.start]

\* the dict "available" of the carry branch: the primaries, and for a year
\* without one the last stored alternative
CarryAvailable(pmap, alts) ==
    [k \in (DOMAIN pmap) \cup {y \in DOMAIN alts : Len(alts[y]) > 0} |->
        IF k \in DOMAIN pmap THEN pmap[k] ELSE alts[k][Len(alts[k])]]

\* a build loop that asks the alternatives before the primary
CellAltFirst(pmap, alts, fy) ==
    LET primary   == IF fy \in DOMAIN pmap THEN <<pmap[fy]>> ELSE <<>>
        best_alt  == pick_best_alternative_for_fy(alts, fy)
        chosen    == IF Len(best_alt) > 0 THEN <<Chosen("alternative", best_alt[1], 0)>>
                     ELSE IF Len(primary) > 0 THEN <<Chosen("primary", primary[1], 0)>>
                     ELSE <<>>
    IN  [chosen |-> chosen, primary |-> primary,
         alternatives |-> Get(alts, fy, <<>>)]

\* row[metric] of the "build FY rows" loop
Cell(pmap, alts, fy) ==
    LET primary   == IF fy \in DOMAIN pmap THEN <<pmap[fy]>> ELSE <<>>
        best_alt  == pick_best_alternative_for_fy(alts, fy)
        available == CarryAvailable(pmap, alts)
        k         == nearest_fy_with_fact(fy, available)
        chosen    == IF Len(primary) > 0 THEN <<Chosen("primary", primary[1], 0)>>
                     ELSE IF Len(best_alt) > 0 THEN <<Chosen("alternative", best_alt[1], 0)>>
                     ELSE IF k # 0 THEN <<Chosen("carried", available[k], k)>>
                     ELSE <<>>
    IN  [chosen |-> chosen, primary |-> primary,
         alternatives |-> Get(alts, fy, <<>>)]

RECURSIVE FreqLoop(_, _, _)
\* the frequency of a row: the form of the first metric with a chosen fact
\* whose form maps to one
FreqLoop(ms, i, cells) ==
    IF i > Len(ms) THEN "None"
    ELSE IF Len(cells[ms[i]].chosen) > 0
            /\ frequency_from_form(cells[ms[i]].chosen[1].form) # "None"
         THEN frequency_from_form(cells[ms[i]].chosen[1].form)
         ELSE FreqLoop(ms, i + 1, cells)

MetricSet(ms) == {ms[i] : i \in 1..Len(ms)}

\* a table built over the years of the primary facts alone
AllFysPrimaryOnly(ms, pmap, alts) ==
    UNION {DOMAIN pmap[m] : m \in MetricSet(ms)}

AllFys(ms, pmap, alts) ==
    UNION {(DOMAIN pmap[m]) \cup (DOMAIN alts[m]) : m \in MetricSet(ms)}

\* step 2 of the main loop: financials_by_fy before derivation
BuildRows(ms, pmap, alts) ==
    [fy \in AllFys(ms, pmap, alts) |->
        LET cells == [m \in MetricSet(ms) |-> Cell(pmap[m], alts[m], fy)]
        IN  [cells |-> cells, frequency |-> FreqLoop(ms, 1, cells), fcf |-> <<>>]]

\* step 3 of the main loop, for one row
Derive(row) ==
    LET ocf   == IF OCF \in DOMAIN row.cells THEN row.cells[OCF].chosen ELSE <<>>
        capex == IF CAPEX \in DOMAIN row.cells THEN row.cells[CAPEX].chosen ELSE <<>>
        from  == (IF Len(ocf) > 0 THEN <<[metric |-> OCF, fact |-> ocf[1]]>> ELSE <<>>)
                 \o (IF Len(capex) > 0 THEN <<[metric |-> CAPEX, fact |-> capex[1]]>> ELSE <<>>)
        value == IF Len(ocf) > 0 /\ Len(capex) > 0
                    /\ IsNumber(ocf[1].value) /\ IsNumber(capex[1].value)
                 THEN Num(ocf[1].value.n - Abs(capex[1].value.n))
                 ELSE NoneVal
    IN  [value |-> value, unit |-> "USD", derived_from |-> from, source |-> "derived"]


\* the taxonomy texts of the model
TaxoFull ==
    [t \in {OCF, CAPEX, "EarningsPerShareBasic", "Assets"} \cup CONCEPTS |->
        CASE t = OCF   -> <<"Net", "of", "sales">>
          [] t = CAPEX -> <<"cost">>
          [] t = "EarningsPerShareBasic" -> <<"net">>
          [] t = "Assets" -> <<"sales">>
          [] t = "AB"  -> <<"cost", "of", "sales">>
          [] t = "BA"  -> <<"sales", "net">>
          [] OTHER     -> <<"net", "sales">>]

\* the METRICS lists the model's runs iterate (two metrics of the source's list)
MetricLists == {<<OCF, CAPEX>>, <<"EarningsPerShareBasic", "Assets">>}

\* the reported-concept lists of the reconciliation runs
ReconReported == {SortedTags(S, 1) : S \in SUBSET {"AB", "BB"}}

EmptyPerMetric(ms) == [m \in MetricSet(ms) |-> EmptyDict]

\* the state of table form.py's variables before collect_to_csv runs
TfIdle ==
    /\ prim = EmptyDict
    /\ keys = {}
    /\ missing_keys = {}
    /\ substitute_cache = EmptyDict
    /\ alt_rows_by_tag = EmptyDict
    /\ filled = EmptyDict
    /\ ret_to = "None"
    /\ rows_out = <<>>

\* the state of TABLE SIMPLE.py's variables before main runs
TsIdle ==
    /\ filing_rows = <<>>
    /\ fi = 1
    /\ sub_call = <<>>

\* the variables of the function runs, in a script's run
FnIdle ==
    /\ rows_in = <<>>
    /\ by_fy_out = EmptyDict
    /\ best_out = EmptyDict
    /\ target_in = "None"
    /\ top_n_in = 0
    /\ returned = <<>>

\* the variables of the single-purpose runs, in another run
LibIdle ==
    /\ period_vals = EmptyDict
    /\ derived_log = <<>>

\* the cache file and the API as the runs that model tags_list by its result see them
TagsIdle ==
    /\ cache_file = <<>>
    /\ remote = EmptyDict
    /\ depths_in = EmptyDict
    /\ arg_in = <<>>

\* a row is eligible for a metric: the conditions of entries_since_2014 and
\* filter_rows_for_metric, stated on the row
Eligible(metric, r) ==
    /\ r.form \in {"10-K", "10-Q"}
    /\ r.fy >= YEAR_CUTOFF
    /\ (IF r.start # 0 THEN "duration" ELSE "instant") = METRIC_PERIOD_TYPE(metric)
    /\ r.uom = (IF metric \in EPS_METRICS THEN "USD/shares" ELSE "USD")

InitFde ==
    /\ prog = "fde"
    /\ pc = "primary"
    /\ texts = TaxoFull
    /\ reported \in ReconReported
    /\ metrics \in MetricLists
    /\ mi = 1
    /\ alt_tags = <<>>
    /\ ai = 1
    /\ primary_by_metric_fy = EmptyPerMetric(metrics)
    /\ alt_by_metric_fylist = EmptyPerMetric(metrics)
    /\ data = EmptyDict
    /\ TfIdle
    /\ TsIdle
    /\ FnIdle
    /\ LibIdle
    /\ TagsIdle
    /\ fetched = <<>>
    /\ chooser_calls = <<>>
    /\ ranked = [m \in MetricSet(metrics) |-> <<>>]
    /\ primary_fys = [m \in MetricSet(metrics) |-> {}]

\* lines 185-190: the primary facts of metrics[mi]
FdePrimary ==
    /\ prog = "fde" /\ pc = "primary"
    /\ \E resp \in PrimaryResponses(mi) :
         LET metric == metrics[mi]
             rows   == filter_rows_for_metric(metric, entries_since_2014(resp))
             best   == choose_latest_filed_per_fy(rows)
         IN  /\ primary_by_metric_fy' =
                   [primary_by_metric_fy EXCEPT ![metric] =
                       [fy \in DOMAIN best |-> sec_row_to_fact(metric, best[fy])]]
             /\ fetched' = Append(fetched, metric)
             /\ primary_fys' = [primary_fys EXCEPT ![metric] =
                    {resp[j].fy : j \in {x \in 1..Len(resp) : Eligible(metric, resp[x])}}]
    /\ pc' = "resolve"
    /\ UNCHANGED <<envVars, tagVars, libVars, fnVars, tfVars, tsVars, mi, alt_tags, ai,
                   alt_by_metric_fylist, data, ranked, chooser_calls>>

\* the str slice s[:n] followed by iteration: the first n characters
StrSlice(s, n) == SubSeq(Chars(s), 1, Min(Len(Chars(s)), n))

\* where the run continues when the alternatives loop is at index i
AfterAlts(i, tags) ==
    IF i <= Len(tags) THEN "alts"
    ELSE IF mi < Len(metrics) THEN "primary" ELSE "build"

NextMi(i, tags) ==
    IF i > Len(tags) /\ mi < Len(metrics) THEN mi + 1 ELSE mi

\* line 193: alt_tags = (choose_revenue_substitute(cik, metric, top_n=24) or [])[:24]
FdeResolve ==
    /\ prog = "fde" /\ pc = "resolve"
    /\ LET metric   == metrics[mi]
           tag_list == TagListLoop(reported, texts, 1)
       IN  \E sims \in SimChoices(texts, metric, tag_list) :
             LET res == choose_revenue_substitute(texts, reported, metric, sims, ALT_LIMIT)
             IN  /\ ranked' = [ranked EXCEPT ![metric] = RankedTags(res.ranking)]
                 /\ chooser_calls' = Append(chooser_calls, metric)
                 /\ \/ /\ res.kind \in {"KeyError", "IndexError"}
                       /\ pc' = "crashed"
                       /\ UNCHANGED <<alt_tags, ai, mi>>
                    \/ /\ res.kind \in {"str", "None"}
                       /\ LET tags == IF res.kind = "str"
                                      THEN StrSlice(res.value, ALT_LIMIT) ELSE <<>>
                          IN  /\ alt_tags' = tags
                              /\ ai' = 1
                              /\ pc' = AfterAlts(1, tags)
                              /\ mi' = NextMi(1, tags)
    /\ UNCHANGED <<envVars, tagVars, libVars, fnVars, tfVars, tsVars, fdeVars, fetched, primary_fys>>

\* alt_by_metric_fylist[metric][fy].append(fact) for every fy of best
AppendAlts(alts, tag, best) ==
    [fy \in (DOMAIN alts) \cup (DOMAIN best) |->
        IF fy \in DOMAIN best
        THEN Append(Get(alts, fy, <<>>), sec_row_to_fact(tag, best[fy]))
        ELSE alts[fy]]

\* lines 194-207: one iteration of "for alt_tag in alt_tags"
FdeAlt ==
    /\ prog = "fde" /\ pc = "alts"
    /\ LET metric  == metrics[mi]
           alt_tag == alt_tags[ai]
       IN  \/ /\ alt_tag = metric
              /\ UNCHANGED <<alt_by_metric_fylist, fetched>>
           \/ /\ alt_tag # metric
              /\ \E resp \in AltResponses(mi) :
                   LET rows == filter_rows_for_metric(metric, entries_since_2014(resp))
                       best == choose_latest_filed_per_fy(rows)
                   IN  /\ fetched' = Append(fetched, alt_tag)
                       /\ alt_by_metric_fylist' =
                            [alt_by_metric_fylist EXCEPT ![metric] =
                                AppendAlts(@, alt_tag, best)]
    /\ ai' = ai + 1
    /\ pc' = AfterAlts(ai + 1, alt_tags)
    /\ mi' = NextMi(ai + 1, alt_tags)
    /\ UNCHANGED <<envVars, tagVars, libVars, fnVars, tfVars, tsVars, alt_tags, primary_by_metric_fy, data, ranked,
                   chooser_calls, primary_fys>>

\* lines 209-255: build one row per fiscal year
FdeBuild ==
    /\ prog = "fde" /\ pc = "build"
    /\ data' = BuildRows(metrics, primary_by_metric_fy, alt_by_metric_fylist)
    /\ pc' = "derive"
    /\ UNCHANGED <<envVars, tagVars, libVars, fnVars, tfVars, tsVars, mi, alt_tags, ai, primary_by_metric_fy,
                   alt_by_metric_fylist, fetched, ranked, chooser_calls, primary_fys>>

\* lines 257-278: derive FreeCashFlow for every row and save
FdeDerive ==
    /\ prog = "fde" /\ pc = "derive"
    /\ data' = [fy \in DOMAIN data |-> [data[fy] EXCEPT !.fcf = <<Derive(data[fy])>>]]
    /\ pc' = "done"
    /\ UNCHANGED <<envVars, tagVars, libVars, fnVars, tfVars, tsVars, mi, alt_tags, ai, primary_by_metric_fy,
                   alt_by_metric_fylist, fetched, ranked, chooser_calls, primary_fys>>

NextFde == FdePrimary \/ FdeResolve \/ FdeAlt \/ FdeBuild \/ FdeDerive

SpecFde == InitFde /\ [][NextFde]_vars


\* ------------------------------------------------------------ table form.py
DUMMY_FY == 9999

valid_since_2014(rows) == EntriesLoop(rows, 1)

filter_metric_rows(metric, rows) == FilterLoop(metric, rows, 1)

to_fact(tag, r) ==
    [tag |-> tag, value |-> r.val, unit |-> r.uom, fy |-> r.fy, form |-> r.form,
     filed |-> r.filed, start |-> r.start]

\* {k: to_fact(tag, v) for k, v in pick_latest_filed_per_fy_form(rows).items()}
\* on the rows of a response, filtered for the metric
BestFacts(metric, tag, resp) ==
    LET best == pick_latest_filed_per_fy_form(
                    filter_metric_rows(metric, valid_since_2014(resp)))
    IN  [k \in DOMAIN best |-> to_fact(tag, best[k])]

InitTf ==
    /\ prog = "tf"
    /\ pc = "tf_primary"
    /\ texts = TaxoFull
    /\ reported \in ReconReported
    /\ metrics \in MetricLists
    /\ mi = 1
    /\ alt_tags = <<>>
    /\ ai = 1
    /\ primary_by_metric_fy = EmptyDict
    /\ alt_by_metric_fylist = EmptyDict
    /\ data = EmptyDict
    /\ TfIdle
    /\ TsIdle
    /\ FnIdle
    /\ LibIdle
    /\ TagsIdle
    /\ fetched = <<>>
    /\ chooser_calls = <<>>
    /\ ranked = [m \in MetricSet(metrics) |-> <<>>]
    /\ primary_fys = [m \in MetricSet(metrics) |-> {}]

\* lines 196-212: get_primary_best, keys, missing_keys, and the call of
\* get_first_available_alternative that follows (the probe call with the
\* dummy key when primary gave no slot, else the call of line 225)
TfPrimary ==
    /\ prog = "tf" /\ pc = "tf_primary"
    /\ \E resp \in PrimaryResponses(mi) :
         LET metric == metrics[mi]
             p      == BestFacts(metric, metric, resp)
         IN  /\ prim' = p
             /\ keys' = DOMAIN p
             /\ fetched' = Append(fetched, metric)
             /\ primary_fys' = [primary_fys EXCEPT ![metric] =
                    {<<resp[j].fy, resp[j].form>> :
                        j \in {x \in 1..Len(resp) : Eligible(metric, resp[x])}}]
             /\ IF DOMAIN p = {}
                THEN missing_keys' = {<<DUMMY_FY, "10-K">>} /\ ret_to' = "probe"
                ELSE /\ missing_keys' = {k \in DOMAIN p : p[k].value = NoneVal}
                     /\ ret_to' = "emit"
    /\ pc' = "gfa"
    /\ UNCHANGED <<envVars, tagVars, libVars, fnVars, fdeVars, tsVars, mi, alt_tags, ai, substitute_cache,
                   alt_rows_by_tag, filled, rows_out, chooser_calls, ranked>>

\* [a for a in alts if a and a != metric], alts being the str returned
CacheList(value, metric) ==
    LET cs == Chars(value)
    IN  SelectSeq(cs, LAMBDA a : a # metric)

\* the effect of returning from get_first_available_alternative to ret_to
GfaReturn(result) ==
    /\ filled' = result
    /\ pc' = ret_to
    /\ ai' = 1
    /\ IF ret_to = "probe" THEN keys' = {} ELSE UNCHANGED keys

CacheNeverHit(cache, cache_key) == FALSE

\* line 146: cache_key in substitute_cache (the run has one CIK, so the
\* metric stands for the pair)
CacheHit(cache, cache_key) == cache_key \in DOMAIN cache

\* lines 142-155: the early return, the cache fill, the empty-list return
TfGfaEnter ==
    /\ prog = "tf" /\ pc = "gfa"
    /\ LET metric == metrics[mi] IN
       \/ /\ missing_keys = {}
          /\ GfaReturn(EmptyDict)
          /\ UNCHANGED <<substitute_cache, alt_tags, alt_rows_by_tag, chooser_calls, ranked>>
       \/ /\ missing_keys # {}
          /\ CacheHit(substitute_cache, metric)
          /\ alt_tags' = substitute_cache[metric]
          /\ IF substitute_cache[metric] = <<>>
             THEN GfaReturn(EmptyDict) /\ UNCHANGED alt_rows_by_tag
             ELSE /\ pc' = "gfa_fetch" /\ ai' = 1 /\ alt_rows_by_tag' = EmptyDict
                  /\ UNCHANGED <<filled, keys>>
          /\ UNCHANGED <<substitute_cache, chooser_calls, ranked>>
       \/ /\ missing_keys # {}
          /\ ~CacheHit(substitute_cache, metric)
          /\ \E sims \in SimChoices(texts, metric, TagListLoop(reported, texts, 1)) :
               LET res == choose_revenue_substitute(texts, reported, metric, sims, ALT_LIMIT)
                   lst == IF res.kind = "str" THEN CacheList(res.value, metric) ELSE <<>>
               IN  /\ chooser_calls' = Append(chooser_calls, metric)
                   /\ ranked' = [ranked EXCEPT ![metric] = RankedTags(res.ranking)]
                   /\ \/ /\ res.kind \in {"KeyError", "IndexError"}
                         /\ pc' = "crashed"
                         /\ UNCHANGED <<substitute_cache, alt_tags, ai, alt_rows_by_tag,
                                        filled, keys>>
                      \/ /\ res.kind \in {"str", "None"}
                         /\ substitute_cache' = Put(substitute_cache, metric, lst)
                         /\ alt_tags' = lst
                         /\ IF lst = <<>>
                            THEN GfaReturn(EmptyDict) /\ UNCHANGED alt_rows_by_tag
                            ELSE /\ pc' = "gfa_fetch" /\ ai' = 1
                                 /\ alt_rows_by_tag' = EmptyDict
                                 /\ UNCHANGED <<filled, keys>>
    /\ UNCHANGED <<envVars, tagVars, libVars, fnVars, fdeVars, tsVars, mi, prim, missing_keys, ret_to, rows_out,
                   fetched, primary_fys>>

\* lines 160-168: one iteration of the fetch loop over alt_tags
TfGfaFetch ==
    /\ prog = "tf" /\ pc = "gfa_fetch"
    /\ \E resp \in AltResponses(mi) :
         LET metric  == metrics[mi]
             alt_tag == alt_tags[ai]
         IN  /\ fetched' = Append(fetched, alt_tag)
             /\ alt_rows_by_tag' =
                  IF resp = <<>> THEN alt_rows_by_tag
                  ELSE Put(alt_rows_by_tag, alt_tag, BestFacts(metric, alt_tag, resp))
    /\ ai' = ai + 1
    /\ pc' = IF ai + 1 > Len(alt_tags) THEN "gfa_fill" ELSE "gfa_fetch"
    /\ UNCHANGED <<envVars, tagVars, libVars, fnVars, fdeVars, tsVars, mi, alt_tags, prim, keys, missing_keys,
                   substitute_cache, filled, ret_to, rows_out, chooser_calls, ranked,
                   primary_fys>>

RECURSIVE FirstAlt(_, _, _, _)
\* the inner loop of lines 173-178: <<>> or <<chosen>>
FirstAlt(tags, i, by_tag, key) ==
    IF i > Len(tags) THEN <<>>
    ELSE LET facts == Get(by_tag, tags[i], EmptyDict)
         IN  IF key \in DOMAIN facts /\ facts[key].value # NoneVal
             THEN <<facts[key]>>
             ELSE FirstAlt(tags, i + 1, by_tag, key)

\* lines 170-181: the facts filled for the missing keys
Filled(tags, by_tag, missing) ==
    [key \in {k \in missing : FirstAlt(tags, 1, by_tag, k) # <<>>} |->
        FirstAlt(tags, 1, by_tag, key)[1]]

TfGfaFill ==
    /\ prog = "tf" /\ pc = "gfa_fill"
    /\ GfaReturn(Filled(alt_tags, alt_rows_by_tag, missing_keys))
    /\ UNCHANGED <<envVars, tagVars, libVars, fnVars, fdeVars, tsVars, mi, alt_tags, prim, missing_keys,
                   substitute_cache, alt_rows_by_tag, ret_to, rows_out, fetched,
                   chooser_calls, ranked, primary_fys>>

\* lines 215-221: one iteration of the probe loop over the cached tags
TfProbeFetch ==
    /\ prog = "tf" /\ pc = "probe"
    /\ LET metric == metrics[mi]
           lst    == Get(substitute_cache, metric, <<>>)
       IN  /\ ai <= Len(lst)
           /\ \E resp \in AltResponses(mi) :
                /\ fetched' = Append(fetched, lst[ai])
                /\ keys' = keys \cup DOMAIN BestFacts(metric, lst[ai], resp)
    /\ ai' = ai + 1
    /\ UNCHANGED <<envVars, tagVars, libVars, fnVars, fdeVars, tsVars, pc, mi, alt_tags, prim, missing_keys,
                   substitute_cache, alt_rows_by_tag, filled, ret_to, rows_out,
                   chooser_calls, ranked, primary_fys>>

\* lines 222-225: the probe loop is over; all keys are missing; call again
TfProbeEnd ==
    /\ prog = "tf" /\ pc = "probe"
    /\ ai > Len(Get(substitute_cache, metrics[mi], <<>>))
    /\ missing_keys' = keys
    /\ ret_to' = "emit"
    /\ pc' = "gfa"
    /\ UNCHANGED <<envVars, tagVars, libVars, fnVars, fdeVars, tsVars, mi, alt_tags, ai, prim, keys, substitute_cache,
                   alt_rows_by_tag, filled, rows_out, fetched, chooser_calls, ranked,
                   primary_fys>>

FormRank(form) == IF form = "10-K" THEN 1 ELSE 2

RECURSIVE SortedKeys(_)
\* sorted(keys) for (fy, form) tuples
SortedKeys(S) ==
    IF S = {} THEN <<>>
    ELSE LET m == CHOOSE x \in S : \A y \in S :
                     \/ x[1] < y[1]
                     \/ (x[1] = y[1] /\ FormRank(x[2]) <= FormRank(y[2]))
         IN  <<m>> \o SortedKeys(S \ {m})

\* lines 229-251: the row emitted for one slot
OutRow(metric, key, p, alt) ==
    IF key \in DOMAIN p /\ p[key].value # NoneVal
    THEN [fy |-> key[1], form |-> key[2], metric |-> metric, tag_used |-> metric,
          value |-> p[key].value, unit |-> p[key].unit, filed |-> p[key].filed,
          start |-> p[key].start, source |-> "primary"]
    ELSE IF key \in DOMAIN alt
    THEN [fy |-> key[1], form |-> key[2], metric |-> metric, tag_used |-> alt[key].tag,
          value |-> alt[key].value, unit |-> alt[key].unit, filed |-> alt[key].filed,
          start |-> alt[key].start, source |-> "alternative"]
    ELSE [fy |-> key[1], form |-> key[2], metric |-> metric, tag_used |-> metric,
          value |-> NoneVal, unit |-> "None", filed |-> 0, start |-> 0,
          source |-> "missing"]

\* lines 227-252: emit the rows of the metric, go on to the next metric
TfEmit ==
    /\ prog = "tf" /\ pc = "emit"
    /\ LET metric == metrics[mi]
           ks     == SortedKeys(keys)
       IN  rows_out' = rows_out \o [i \in 1..Len(ks) |-> OutRow(metric, ks[i], prim, filled)]
    /\ IF mi < Len(metrics)
       THEN mi' = mi + 1 /\ pc' = "tf_primary"
       ELSE mi' = mi /\ pc' = "done"
    /\ UNCHANGED <<envVars, tagVars, libVars, fnVars, fdeVars, tsVars, alt_tags, ai, prim, keys, missing_keys,
                   substitute_cache, alt_rows_by_tag, filled, ret_to, fetched,
                   chooser_calls, ranked, primary_fys>>

NextTf == TfPrimary \/ TfGfaEnter \/ TfGfaFetch \/ TfGfaFill \/ TfProbeFetch
          \/ TfProbeEnd \/ TfEmit

SpecTf == InitTf /\ [][NextTf]_vars


\* ------------------------------------------------------------ TABLE SIMPLE.py
YEARS_BACK == 10

\* datetime.utcnow().year of the run: the year that puts start_fy at the
\* first fiscal year of the rows below
CurrentYear == YEAR_CUTOFF + YEARS_BACK - 1

start_fy == CurrentYear - YEARS_BACK + 1

\* Rows the filings API may return to TABLE SIMPLE.py; accn "" and fp "" stand
\* for an absent field.
TsRow(a, y, p) == [accn |-> a, fy |-> y, fp |-> p, form |-> "10-K", filed |-> 1,
                   start |-> 1, uom |-> "USD", val |-> Num(1)]

TsPrimaryRows ==
    {TsRow("a1", YEAR_CUTOFF, "FY"),
     [TsRow("a1", YEAR_CUTOFF, "FY") EXCEPT !.val = NoneVal, !.filed = 2],
     [TsRow("a2", YEAR_CUTOFF + 1, "Q1") EXCEPT !.form = "10-Q"],
     TsRow("", YEAR_CUTOFF, "FY")}

\* rows of an alternative tag: one passing every test of the first attempt,
\* and rows differing from it in one field
TsAltRows ==
    LET ok == [TsRow("a1", YEAR_CUTOFF, "FY") EXCEPT !.val = Num(2)]
    IN  {ok,
         [ok EXCEPT !.start = 0],
         [ok EXCEPT !.uom = "USD/shares"],
         [ok EXCEPT !.accn = "a3"],
         [ok EXCEPT !.accn = "a3", !.fy = YEAR_CUTOFF + 1],
         [ok EXCEPT !.form = "8-K"],
         [ok EXCEPT !.val = NoneVal]}

TsPrimaryResponses(i) ==
    IF i = 1
    THEN {<<>>} \cup {<<r>> : r \in TsPrimaryRows}
         \cup {<<r1, r2>> : r1 \in TsPrimaryRows, r2 \in TsPrimaryRows}
    ELSE {<<>>, <<TsRow("a1", YEAR_CUTOFF, "FY")>>}

TsAltResponses ==
    {<<>>} \cup {<<r>> : r \in TsAltRows}
    \cup {<<p[1], p[2]>> : p \in {q \in TsAltRows \X TsAltRows : q[1] # q[2]}}

wanted_form(r) == r.form \in {"10-K", "10-Q"}

RECURSIVE TsFilterLoop(_, _, _, _)
TsFilterLoop(metric, rows, from_fy, i) ==
    IF i > Len(rows) THEN <<>>
    ELSE LET r    == rows[i]
             rest == TsFilterLoop(metric, rows, from_fy, i + 1)
         IN  IF /\ wanted_form(r)
                /\ r.fy >= from_fy
                /\ RowPeriodType(r) = METRIC_PERIOD_TYPE(metric)
                /\ unit_ok_for_metric(metric, r.uom)
             THEN <<r>> \o rest
             ELSE rest

ts_filter_metric_rows(metric, rows, from_fy) == TsFilterLoop(metric, rows, from_fy, 1)

\* the position of the filing with this accn in filing_rows, 0 if none
RowIndex(frows, a) ==
    IF \E i \in 1..Len(frows) : frows[i].accn = a
    THEN CHOOSE i \in 1..Len(frows) : frows[i].accn = a
    ELSE 0

RECURSIVE ByAccnLoop(_, _, _)
\* lines 232-239: the latest-filed row per accn, as a list in insertion order
ByAccnLoop(rows, i, by_accn) ==
    IF i > Len(rows) THEN by_accn
    ELSE LET r == rows[i]
             j == RowIndex(by_accn, r.accn)
         IN  IF r.accn = "" THEN ByAccnLoop(rows, i + 1, by_accn)
             ELSE IF j = 0 THEN ByAccnLoop(rows, i + 1, Append(by_accn, r))
             ELSE IF r.filed > by_accn[j].filed
                  THEN ByAccnLoop(rows, i + 1, [by_accn EXCEPT ![j] = r])
             ELSE ByAccnLoop(rows, i + 1, by_accn)

\* row[metric] = v if isinstance(v, (int, float)) else None
NumericOrNone(v) == IF IsNumber(v) THEN v ELSE NoneVal

RECURSIVE MergeLoop(_, _, _, _)
\* lines 242-250: merge the metric's rows into filing_rows
MergeLoop(metric, by_accn, i, frows) ==
    IF i > Len(by_accn) THEN frows
    ELSE LET r == by_accn[i]
             j == RowIndex(frows, r.accn)
         IN  IF j = 0
             THEN MergeLoop(metric, by_accn, i + 1,
                    Append(frows, [accn |-> r.accn, fy |-> r.fy, fp |-> r.fp,
                                   form |-> r.form, filed |-> r.filed,
                                   start |-> r.start, cik |-> "cik",
                                   vals |-> Put(EmptyDict, metric, NumericOrNone(r.val)),
                                   src |-> EmptyDict]))
             ELSE MergeLoop(metric, by_accn, i + 1,
                    [frows EXCEPT ![j].vals = Put(@, metric, NumericOrNone(r.val))])

\* the filters with a first attempt that does not test the period type
StageFilterNoPeriod(stage, metric, row, r) ==
    CASE stage = 1 -> /\ ~(row.accn # "" /\ r.accn # row.accn)
                      /\ unit_ok_for_metric(metric, r.uom)
      [] stage = 2 -> /\ r.fy = row.fy
                      /\ ~(row.fp # "" /\ r.fp # row.fp)
                      /\ unit_ok_for_metric(metric, r.uom)
      [] stage = 3 -> r.fy = row.fy
      [] OTHER     -> TRUE

\* the four filters of substitute_missing_value, by the number of the attempt
StageFilter(stage, metric, row, r) ==
    CASE stage = 1 -> /\ ~(row.accn # "" /\ r.accn # row.accn)
                      /\ RowPeriodType(r) = METRIC_PERIOD_TYPE(metric)
                      /\ unit_ok_for_metric(metric, r.uom)
      [] stage = 2 -> /\ r.fy = row.fy
                      /\ ~(row.fp # "" /\ r.fp # row.fp)
                      /\ unit_ok_for_metric(metric, r.uom)
      [] stage = 3 -> r.fy = row.fy
      [] OTHER     -> TRUE

RECURSIVE first_match(_, _, _, _, _)
\* <<>> for None, else <<r>> for the row whose val is returned
first_match(alt_rows, i, stage, metric, row) ==
    IF i > Len(alt_rows) THEN <<>>
    ELSE LET r == alt_rows[i]
         IN  IF wanted_form(r) /\ StageFilter(stage, metric, row, r) /\ IsNumber(r.val)
             THEN <<r>>
             ELSE first_match(alt_rows, i + 1, stage, metric, row)

RECURSIVE Attempts(_, _, _, _)
\* lines 184-208: the attempts in turn, each made only if val is still None
Attempts(alt_rows, stage, metric, row) ==
    LET found == first_match(alt_rows, 1, stage, metric, row)
    IN  IF found # <<>> THEN [stage |-> stage, rec |-> found]
        ELSE IF stage = 4 THEN [stage |-> 0, rec |-> <<>>]
        ELSE Attempts(alt_rows, stage + 1, metric, row)

\* lines 156-210 of substitute_missing_value, given the tag the Resolver
\* returned and the rows fetched for it: (val, source) and the record val
\* was read from
substitute_missing_value(metric, row, alt_tag, alt_rows) ==
    IF alt_rows = <<>>
    THEN [val |-> NoneVal, source |-> alt_tag, stage |-> 0, rec |-> <<>>]
    ELSE LET a == Attempts(alt_rows, 1, metric, row)
         IN  [val |-> IF a.rec = <<>> THEN NoneVal ELSE a.rec[1].val,
              source |-> alt_tag, stage |-> a.stage, rec |-> a.rec]

InitTs ==
    /\ prog = "ts"
    /\ pc = "ts_primary"
    /\ texts = TaxoFull
    /\ reported \in ReconReported
    /\ metrics \in MetricLists
    /\ mi = 1
    /\ alt_tags = <<>>
    /\ ai = 1
    /\ primary_by_metric_fy = EmptyDict
    /\ alt_by_metric_fylist = EmptyDict
    /\ data = EmptyDict
    /\ TfIdle
    /\ TsIdle
    /\ FnIdle
    /\ LibIdle
    /\ TagsIdle
    /\ fetched = <<>>
    /\ chooser_calls = <<>>
    /\ ranked = [m \in MetricSet(metrics) |-> <<>>]
    /\ primary_fys = [m \in MetricSet(metrics) |-> {}]

\* lines 228-252: one metric of the collection loop
TsPrimary ==
    /\ prog = "ts" /\ pc = "ts_primary"
    /\ \E resp \in TsPrimaryResponses(mi) :
         LET metric == metrics[mi]
             rows   == ts_filter_metric_rows(metric, resp, start_fy)
             merged == MergeLoop(metric, ByAccnLoop(rows, 1, <<>>), 1, filing_rows)
         IN  /\ filing_rows' = merged
             /\ fetched' = Append(fetched, metric)
             /\ IF mi < Len(metrics)
                THEN mi' = mi + 1 /\ pc' = "ts_primary"
                ELSE mi' = 1 /\ pc' = IF merged = <<>> THEN "done" ELSE "ts_fill"
    /\ UNCHANGED <<envVars, tagVars, libVars, fnVars, fdeVars, tfVars, alt_tags, ai, chooser_calls, ranked,
                   primary_fys, fi, sub_call>>

\* the loop variables after one (filing, metric) step of the fill loop
FillAdvance ==
    IF mi < Len(metrics) THEN mi' = mi + 1 /\ fi' = fi /\ pc' = "ts_fill"
    ELSE IF fi < Len(filing_rows) THEN mi' = 1 /\ fi' = fi + 1 /\ pc' = "ts_fill"
    ELSE mi' = mi /\ fi' = fi /\ pc' = "done"

\* lines 255-270 with lines 131-154: one (filing, metric) step of the fill
\* loop, up to the tag the Resolver returns for a missing value
TsFill ==
    /\ prog = "ts" /\ pc = "ts_fill"
    /\ LET row == filing_rows[fi]
           m   == metrics[mi]
       IN  IF Get(row.vals, m, NoneVal) # NoneVal
           THEN /\ filing_rows' = [filing_rows EXCEPT ![fi].src = Put(@, m, "sec")]
                /\ FillAdvance
                /\ UNCHANGED <<alt_tags, chooser_calls, ranked>>
           ELSE \E sims \in SimChoices(texts, m, TagListLoop(reported, texts, 1)) :
                  LET res == choose_revenue_substitute(texts, reported, m, sims,
                                                       DEFAULT_TOP_N)
                  IN  /\ chooser_calls' = Append(chooser_calls, m)
                      /\ ranked' = [ranked EXCEPT ![m] = RankedTags(res.ranking)]
                      /\ CASE res.kind = "str" ->
                                /\ alt_tags' = <<res.value>>
                                /\ pc' = "ts_fetch"
                                /\ UNCHANGED <<filing_rows, mi, fi>>
                           [] res.kind = "None" ->
                                /\ filing_rows' =
                                     [filing_rows EXCEPT ![fi].src = Put(@, m, "missing")]
                                /\ FillAdvance
                                /\ UNCHANGED alt_tags
                           [] OTHER ->
                                /\ pc' = "crashed"
                                /\ UNCHANGED <<filing_rows, mi, fi, alt_tags>>
    /\ UNCHANGED <<envVars, tagVars, libVars, fnVars, fdeVars, tfVars, ai, primary_fys, fetched, sub_call>>

\* lines 156-210 and 263-267: fetch the rows of the tag, take a value from
\* them, store it and its source
TsFetch ==
    /\ prog = "ts" /\ pc = "ts_fetch"
    /\ \E resp \in TsAltResponses :
         LET m   == metrics[mi]
             sub == substitute_missing_value(m, filing_rows[fi], alt_tags[1], resp)
         IN  /\ fetched' = Append(fetched, alt_tags[1])
             /\ sub_call' = <<[metric |-> m, accn |-> filing_rows[fi].accn,
                              alt_tag |-> sub.source, alt_rows |-> resp,
                              stage |-> sub.stage, rec |-> sub.rec]>>
             /\ filing_rows' = [filing_rows EXCEPT
                   ![fi].vals = IF sub.val # NoneVal THEN Put(@, m, sub.val) ELSE @,
                   ![fi].src = Put(@, m, sub.source)]
    /\ FillAdvance
    /\ UNCHANGED <<envVars, tagVars, libVars, fnVars, fdeVars, tfVars, alt_tags, ai, chooser_calls, ranked,
                   primary_fys>>

NextTs == TsPrimary \/ TsFill \/ TsFetch

SpecTs == InitTs /\ [][NextTs]_vars

\* the three reconciliation scripts, each run from its start
InitRecon == InitFde \/ InitTf \/ InitTs

NextRecon == NextFde \/ NextTf \/ NextTs

SpecRecon == InitRecon /\ [][NextRecon]_vars


\* ------------------------------------------------- the selection functions
\* the variables of the scripts, in a run of one function
ScriptsIdle ==
    /\ metrics = <<>>
    /\ mi = 1
    /\ alt_tags = <<>>
    /\ ai = 1
    /\ primary_by_metric_fy = EmptyDict
    /\ alt_by_metric_fylist = EmptyDict
    /\ data = EmptyDict
    /\ TfIdle
    /\ TsIdle
    /\ fetched = <<>>
    /\ chooser_calls = <<>>
    /\ ranked = EmptyDict
    /\ primary_fys = EmptyDict

\* Rows the selection functions are handed: rows that passed the filters, of
\* one fiscal year in both forms at every filing date, and an annual row of
\* the next year.
SelectRows ==
    {[BaseRow(YEAR_CUTOFF, f) EXCEPT !.form = fm] :
        f \in 1..MaxFiled, fm \in {"10-K", "10-Q"}}
    \cup {BaseRow(YEAR_CUTOFF + 1, 1)}

InitSelect ==
    /\ prog = "select"
    /\ pc = "rows"
    /\ texts = EmptyDict
    /\ reported = <<>>
    /\ ScriptsIdle
    /\ LibIdle
    /\ TagsIdle
    /\ rows_in \in BoundedSeq(SelectRows, MaxRows)
    /\ by_fy_out = EmptyDict
    /\ best_out = EmptyDict
    /\ target_in = "None"
    /\ top_n_in = 0
    /\ returned = <<>>

\* final data extractor.py, line 189 or 200: best = choose_latest_filed_per_fy(rows)
SelectChoose ==
    /\ prog = "select" /\ pc = "rows"
    /\ by_fy_out' = choose_latest_filed_per_fy(rows_in)
    /\ pc' = "chosen"
    /\ UNCHANGED <<envVars, tagVars, libVars, fdeVars, tfVars, tsVars, mi, alt_tags, ai, fetched,
                   chooser_calls, ranked, primary_fys, rows_in, best_out, target_in,
                   top_n_in, returned>>

\* table form.py, line 129 or 165: best = pick_latest_filed_per_fy_form(rows)
SelectPick ==
    /\ prog = "select" /\ pc = "rows"
    /\ best_out' = pick_latest_filed_per_fy_form(rows_in)
    /\ pc' = "picked"
    /\ UNCHANGED <<envVars, tagVars, libVars, fdeVars, tfVars, tsVars, mi, alt_tags, ai, fetched,
                   chooser_calls, ranked, primary_fys, rows_in, by_fy_out, target_in,
                   top_n_in, returned>>

NextSelect == SelectChoose \/ SelectPick

SpecSelect == InitSelect /\ [][NextSelect]_vars

\* ---------------------------------------------------- the Resolver, called
\* taxonomies a call may see: the full one, one in which two candidates
\* carry the target's text, one without a text for the target
ResolverTexts ==
    {TaxoFull,
     [TaxoFull EXCEPT !["AB"] = <<"Net", "sales">>],
     [t \in (DOMAIN TaxoFull) \ {OCF} |-> TaxoFull[t]]}

ResolverTopN == {1, DEFAULT_TOP_N}

InitResolver ==
    /\ prog = "resolver"
    /\ pc = "call"
    /\ texts \in ResolverTexts
    /\ reported \in {SortedTags(S, 1) : S \in SUBSET CONCEPTS}
    /\ ScriptsIdle
    /\ LibIdle
    /\ TagsIdle
    /\ rows_in = <<>>
    /\ by_fy_out = EmptyDict
    /\ best_out = EmptyDict
    /\ target_in \in {OCF, CAPEX}
    /\ top_n_in \in ResolverTopN
    /\ returned = <<>>

\* one call choose_revenue_substitute(CIK, target_label, top_n)
ResolverCall ==
    /\ prog = "resolver" /\ pc = "call"
    /\ \E sims \in IF target_in \in DOMAIN texts
                   THEN SimChoices(texts, target_in, TagListLoop(reported, texts, 1))
                   ELSE {<<>>} :
         returned' = <<choose_revenue_substitute(texts, reported, target_in, sims,
                                                 top_n_in)>>
    /\ pc' = "returned"
    /\ UNCHANGED <<envVars, tagVars, libVars, fdeVars, tfVars, tsVars, mi, alt_tags, ai, fetched,
                   chooser_calls, ranked, primary_fys, rows_in, by_fy_out, best_out,
                   target_in, top_n_in>>

NextResolver == ResolverCall

SpecResolver == InitResolver /\ [][NextResolver]_vars


\* final data extractor.py and table form.py, each run from its start
InitFdeTf == InitFde \/ InitTf

NextFdeTf == NextFde \/ NextTf

SpecFdeTf == InitFdeTf /\ [][NextFdeTf]_vars

\* ------------------------------------------------------ the three scorers
\* A hierarchy is its parent function: every concept but the root TREE_ROOT
\* has one parent.
TREE_ROOT == "Assets"

TREE_CHILDREN == {OCF, "AB", "BB"}

TREE_NODES == TREE_CHILDREN \cup {TREE_ROOT}

\* the order in which the arcs of a hierarchy list the children
TREE_ORDER == <<TREE_ROOT, OCF, "AB", "BB">>

RECURSIVE UpTo(_, _, _)
\* the concepts from n up to the root of parent function p, n first
UpTo(p, n, fuel) ==
    IF n \notin DOMAIN p \/ fuel = 0 THEN <<n>>
    ELSE <<n>> \o UpTo(p, p[n], fuel - 1)

\* the parent functions without a cycle: every concept reaches the root
HIERARCHIES ==
    {p \in [TREE_CHILDREN -> TREE_NODES] :
        \A n \in TREE_CHILDREN :
            LET path == UpTo(p, n, Cardinality(TREE_CHILDREN))
            IN  path[Len(path)] = TREE_ROOT}

RECURSIVE ChildrenLoop(_, _, _)
\* the children of n in arc order
ChildrenLoop(p, n, i) ==
    IF i > Len(TREE_ORDER) THEN <<>>
    ELSE IF TREE_ORDER[i] \in DOMAIN p /\ p[TREE_ORDER[i]] = n
         THEN <<TREE_ORDER[i]>> \o ChildrenLoop(p, n, i + 1)
         ELSE ChildrenLoop(p, n, i + 1)

\* the dict child -> [parent] of a hierarchy, as get_ancestors reads a tree
ParentMap(p) == [n \in DOMAIN p |-> <<p[n]>>]

\* the dict parent -> children of a hierarchy, as get_descendants reads a tree
ChildMap(p) ==
    [n \in {p[c] : c \in DOMAIN p} |-> ChildrenLoop(p, n, 1)]

\* the link role of the model's one presentation network
PRES_ROLE == "http://fasb.org/us-gaap/role/statement"

\* lines 31-54: forest, keyed by link role; the list holds the root nodes,
\* whose "children" lists follow the hierarchy
BuiltForest(p) == [r \in {PRES_ROLE} |-> <<TREE_ROOT>>]

\* get_network_for_target_label(target_label, forest): a network is returned
\* when a node of some root's "children" list carries the target as label
get_network_for_target_label(target, p) ==
    \E c \in DOMAIN p : p[c] = TREE_ROOT /\ c = target

InitScorers ==
    /\ prog \in {"resolver", "semantic_similarity", "by_descendants"}
    /\ pc = "call"
    /\ texts \in ResolverTexts
    /\ reported \in {SortedTags(S, 1) : S \in SUBSET CONCEPTS}
    /\ ScriptsIdle
    /\ LibIdle
    /\ TagsIdle
    /\ rows_in = <<>>
    /\ by_fy_out = EmptyDict
    /\ best_out = EmptyDict
    /\ target_in \in {OCF, CAPEX}
    /\ top_n_in \in ResolverTopN
    /\ returned = <<>>

\* one call semantic_similarity(texts, reported, target_tag, n)
SemanticCall ==
    /\ prog = "semantic_similarity" /\ pc = "call"
    /\ \E sims \in IF target_in \in DOMAIN texts
                   THEN SimChoices(texts, target_in, TagListLoop(reported, texts, 1))
                   ELSE {<<>>} :
         \E empty_kind \in {"ValueError", "list"} :
            returned' = <<semantic_similarity(texts, reported, target_in, sims, top_n_in,
                                              empty_kind)>>
    /\ pc' = "returned"
    /\ UNCHANGED <<envVars, tagVars, libVars, fdeVars, tfVars, tsVars, mi, alt_tags, ai, fetched,
                   chooser_calls, ranked, primary_fys, rows_in, by_fy_out, best_out,
                   target_in, top_n_in>>

\* one call choose_revenue_substitute_by_descendants(CIK, target_label, top_n)
DescendantsCall ==
    /\ prog = "by_descendants" /\ pc = "call"
    /\ \E p \in HIERARCHIES :
         LET closest == ClosestDescendant(texts, BuiltForest(p),
                                          get_network_for_target_label(target_in, p),
                                          target_in)
         IN  returned' = <<choose_revenue_substitute_by_descendants(texts, target_in,
                                                                    closest)>>
    /\ pc' = "returned"
    /\ UNCHANGED <<envVars, tagVars, libVars, fdeVars, tfVars, tsVars, mi, alt_tags, ai, fetched,
                   chooser_calls, ranked, primary_fys, rows_in, by_fy_out, best_out,
                   target_in, top_n_in>>

NextScorers == ResolverCall \/ SemanticCall \/ DescendantsCall

SpecScorers == InitScorers /\ [][NextScorers]_vars

\* ------------------------------------------- the FreeCashFlow derivations
\* Each script derives FreeCashFlow from the values of one period; a run
\* here is that loop body on one period, executed up to MaxDerivations times.
FREE_CASH_FLOW == "FreeCashFlow"

\* a str value: the "not available ..." text with the pieces it offers
Text(pieces) == [type |-> "str", n |-> 0, pieces |-> pieces]

\* what a period holds for an input metric: a number or JSON null
DeriveVals == {NoneVal} \cup {Num(a) : a \in (0 - MaxAmount)..MaxAmount}

\* a chosen fact of final data extractor.py with value v
DeriveFact(metric, v) ==
    Chosen("primary", sec_row_to_fact(metric, [BaseRow(YEAR_CUTOFF, 1) EXCEPT !.val = v]), 0)

\* the rows of final data extractor.py handed to the derivation
DeriveRows ==
    {[cells |-> [m \in {OCF, CAPEX} |->
                    [chosen |-> IF m = OCF THEN o ELSE c, primary |-> <<>>,
                     alternatives |-> <<>>]],
      frequency |-> "annual", fcf |-> <<>>] :
        o \in {<<>>} \cup {<<DeriveFact(OCF, v)>> : v \in DeriveVals},
        c \in {<<>>} \cup {<<DeriveFact(CAPEX, v)>> : v \in DeriveVals}}

\* the periods of usd improvment.py: metric -> r["val"], a metric found in
\* no filing of the period has no key
UsdPeriods ==
    UNION {[S -> DeriveVals] : S \in SUBSET {OCF, CAPEX}}

\* the periods of alt_v2.py after its step 2: every metric has a key, with
\* r["val"] or the "not available ..." text
AltV2Periods == [{OCF, CAPEX} -> DeriveVals \cup {Text(<<>>)}]

\* usd improvment.py, lines 141-147, for one period
usd_derive(period) ==
    LET op    == Get(period, OCF, NoneVal)
        capex == Get(period, CAPEX, NoneVal)
    IN  IF op # NoneVal /\ capex # NoneVal
        THEN [vals |-> Put(period, FREE_CASH_FLOW, Num(op.n - capex.n)), missing |-> <<>>]
        ELSE [vals |-> period, missing |-> <<FREE_CASH_FLOW>>]

\* a derivation that names no piece in its text
alt_v2_derive_no_pieces(period) ==
    LET op    == Get(period, OCF, NoneVal)
        capex == Get(period, CAPEX, NoneVal)
    IN  IF IsNumber(op) /\ IsNumber(capex)
        THEN Put(period, FREE_CASH_FLOW, Num(op.n - Abs(capex.n)))
        ELSE Put(period, FREE_CASH_FLOW, Text(<<>>))

\* alt_v2.py, lines 164-178, for one period
alt_v2_derive(period) ==
    LET op     == Get(period, OCF, NoneVal)
        capex  == Get(period, CAPEX, NoneVal)
        pieces == (IF IsNumber(op) THEN <<[metric |-> OCF, n |-> op.n]>> ELSE <<>>)
                  \o (IF IsNumber(capex) THEN <<[metric |-> CAPEX, n |-> capex.n]>>
                      ELSE <<>>)
    IN  IF IsNumber(op) /\ IsNumber(capex)
        THEN Put(period, FREE_CASH_FLOW, Num(op.n - Abs(capex.n)))
        ELSE Put(period, FREE_CASH_FLOW, Text(pieces))

InitDerive ==
    /\ prog \in {"fde_derive", "usd_derive", "alt_v2_derive"}
    /\ pc = "derive"
    /\ texts = EmptyDict
    /\ reported = <<>>
    /\ ScriptsIdle
    /\ FnIdle
    /\ period_vals \in CASE prog = "fde_derive" -> DeriveRows
                         [] prog = "usd_derive" -> UsdPeriods
                         [] OTHER               -> AltV2Periods
    /\ derived_log = <<>>
    /\ TagsIdle

\* final data extractor.py, lines 258-266, on this period
DeriveFde ==
    /\ prog = "fde_derive" /\ Len(derived_log) < MaxDerivations
    /\ period_vals' = [period_vals EXCEPT !.fcf = <<Derive(period_vals)>>]
    /\ derived_log' = Append(derived_log, Derive(period_vals))
    /\ pc' = "derived"
    /\ UNCHANGED <<envVars, tagVars, fdeVars, tfVars, tsVars, fnVars, mi, alt_tags, ai, fetched,
                   chooser_calls, ranked, primary_fys>>

\* usd improvment.py, lines 141-147, on this period
DeriveUsd ==
    /\ prog = "usd_derive" /\ Len(derived_log) < MaxDerivations
    /\ period_vals' = usd_derive(period_vals).vals
    /\ derived_log' = Append(derived_log, usd_derive(period_vals))
    /\ pc' = "derived"
    /\ UNCHANGED <<envVars, tagVars, fdeVars, tfVars, tsVars, fnVars, mi, alt_tags, ai, fetched,
                   chooser_calls, ranked, primary_fys>>

\* alt_v2.py, lines 164-178, on this period
DeriveAltV2 ==
    /\ prog = "alt_v2_derive" /\ Len(derived_log) < MaxDerivations
    /\ period_vals' = alt_v2_derive(period_vals)
    /\ derived_log' = Append(derived_log, alt_v2_derive(period_vals)[FREE_CASH_FLOW])
    /\ pc' = "derived"
    /\ UNCHANGED <<envVars, tagVars, fdeVars, tfVars, tsVars, fnVars, mi, alt_tags, ai, fetched,
                   chooser_calls, ranked, primary_fys>>

NextDerive == DeriveFde \/ DeriveUsd \/ DeriveAltV2

SpecDerive == InitDerive /\ [][NextDerive]_vars

\* ------------------------------------------------------------- tags_list
\* A run calls tags_list(CIK) for up to MaxTagCalls entities; the cache file
\* may be there from an earlier run.
CIKS == {"0000320193", "0000789019"}

FACT_TAGS == {"AB", "BB", "Revenues"}

\* facts["facts"]["us-gaap"] of a company-facts document: tag -> the fy of
\* its rows
FactsDocs == UNION {[S -> {YEAR_CUTOFF - 1, YEAR_CUTOFF}] : S \in SUBSET FACT_TAGS}

\* lines 16-24: the tags of a document with a row of fy >= YEAR_CUTOFF,
\* "Revenues" left out, sorted
TagsOf(facts) ==
    SortedTags({t \in DOMAIN facts : t # "Revenues" /\ facts[t] >= YEAR_CUTOFF}, 1)

\* helper._dl(url, fp): nothing when fp exists; otherwise line 12 uses the
\* name requests, which helper.py does not import
_dl(file, body) ==
    IF file # <<>> THEN [kind |-> "ok", file |-> file]
    ELSE [kind |-> "NameError", file |-> file]

\* tags_list(CIK), given the cache file and the API's document for CIK
tags_list(CIK, file, body) ==
    LET dl == _dl(file, body)
    IN  IF dl.kind # "ok"
        THEN [cik |-> CIK, kind |-> dl.kind, value |-> <<>>, file |-> dl.file]
        ELSE [cik |-> CIK, kind |-> "list", value |-> TagsOf(dl.file[1].facts),
              file |-> dl.file]

InitTags ==
    /\ prog = "tags_list"
    /\ pc = "call"
    /\ texts = EmptyDict
    /\ reported = <<>>
    /\ ScriptsIdle
    /\ FnIdle
    /\ LibIdle
    /\ remote \in [CIKS -> FactsDocs]
    /\ cache_file \in {<<>>} \cup {<<[cik |-> c, facts |-> remote[c]]>> : c \in CIKS}
    /\ depths_in = EmptyDict
    /\ arg_in = <<>>

\* one call tags_list(CIK)
TagsListCall ==
    /\ prog = "tags_list" /\ pc = "call" /\ Len(returned) < MaxTagCalls
    /\ \E c \in CIKS :
         LET res == tags_list(c, cache_file, [cik |-> c, facts |-> remote[c]])
         IN  /\ returned' = Append(returned, [cik |-> res.cik, kind |-> res.kind,
                                              value |-> res.value])
             /\ cache_file' = res.file
             /\ pc' = IF res.kind = "list" THEN "call" ELSE "crashed"
    /\ UNCHANGED <<envVars, libVars, fdeVars, tfVars, tsVars, mi, alt_tags, ai, fetched,
                   chooser_calls, ranked, primary_fys, rows_in, by_fy_out, best_out,
                   target_in, top_n_in, remote, depths_in, arg_in>>

NextTags == TagsListCall

SpecTags == InitTags /\ [][NextTags]_vars

\* ----------------------------------------- granularity_difference, called
DEPTH_VALUES == {2, 4, 6}

\* the keys of depths: concepts, and "A", a prefix of "AB"
DEPTH_KEYS == CONCEPTS \cup {"A"}

\* the orders in which a set can be iterated
Perms(S) ==
    {f \in [1..Cardinality(S) -> S] : \A i, j \in 1..Cardinality(S) : f[i] = f[j] => i = j}

GRANULARITY_TOP_N == {2, DEFAULT_TOP_N}

\* the targets: concepts, and "ABA", whose proper prefixes are "AB" and "A"
GRANULARITY_TARGETS == CONCEPTS \cup {"ABA"}

InitGranularity ==
    /\ prog = "granularity_difference"
    /\ pc = "call"
    /\ texts = EmptyDict
    /\ reported \in {SortedTags(S, 1) : S \in SUBSET CONCEPTS}
    /\ ScriptsIdle
    /\ LibIdle
    /\ cache_file = <<>>
    /\ remote = EmptyDict
    /\ depths_in \in UNION {[S -> DEPTH_VALUES] : S \in SUBSET DEPTH_KEYS}
    /\ arg_in = <<>>
    /\ rows_in = <<>>
    /\ by_fy_out = EmptyDict
    /\ best_out = EmptyDict
    /\ target_in \in GRANULARITY_TARGETS
    /\ top_n_in \in GRANULARITY_TOP_N
    /\ returned = <<>>

\* one call granularity_difference(depths, reported, target, n); the set
\* reported is iterated in one of its orders
GranularityCall ==
    /\ prog = "granularity_difference" /\ pc = "call"
    /\ \E order \in Perms({reported[i] : i \in 1..Len(reported)}) :
         returned' = <<granularity_difference(depths_in, order, target_in, top_n_in)>>
    /\ pc' = "returned"
    /\ UNCHANGED <<envVars, tagVars, libVars, fdeVars, tfVars, tsVars, mi, alt_tags, ai,
                   fetched, chooser_calls, ranked, primary_fys, rows_in, by_fy_out,
                   best_out, target_in, top_n_in>>

NextGranularity == GranularityCall

SpecGranularity == InitGranularity /\ [][NextGranularity]_vars

\* ------------------------------------------- the tree functions, called
InitTree ==
    /\ prog = "tree"
    /\ pc = "call"
    /\ texts = EmptyDict
    /\ reported = <<>>
    /\ ScriptsIdle
    /\ FnIdle
    /\ LibIdle
    /\ cache_file = <<>>
    /\ remote = EmptyDict
    /\ depths_in = EmptyDict
    /\ \E p \in HIERARCHIES : \E t \in {ParentMap(p), ChildMap(p)} :
       \E a, b \in TREE_NODES :
          arg_in = [hier |-> p, tree |-> t, tag1 |-> a, tag2 |-> b]

\* one call get_ancestors(tag1, tree)
AncestorsCall ==
    /\ prog = "tree" /\ pc = "call"
    /\ returned' = <<[fn |-> "get_ancestors",
                      res |-> get_ancestors(arg_in.tag1, arg_in.tree)]>>
    /\ pc' = "returned"
    /\ UNCHANGED <<envVars, tagVars, libVars, fdeVars, tfVars, tsVars, mi, alt_tags, ai,
                   fetched, chooser_calls, ranked, primary_fys, rows_in, by_fy_out,
                   best_out, target_in, top_n_in>>

\* one call find_lca(tag1, tag2, tree)
LcaCall ==
    /\ prog = "tree" /\ pc = "call"
    /\ returned' = <<[fn |-> "find_lca",
                      res |-> find_lca(arg_in.tag1, arg_in.tag2, arg_in.tree)]>>
    /\ pc' = "returned"
    /\ UNCHANGED <<envVars, tagVars, libVars, fdeVars, tfVars, tsVars, mi, alt_tags, ai,
                   fetched, chooser_calls, ranked, primary_fys, rows_in, by_fy_out,
                   best_out, target_in, top_n_in>>

\* one call calculate_distance(tag1, tag2, tree)
DistanceCall ==
    /\ prog = "tree" /\ pc = "call"
    /\ returned' = <<[fn |-> "calculate_distance",
                      res |-> calculate_distance(arg_in.tag1, arg_in.tag2, arg_in.tree)]>>
    /\ pc' = "returned"
    /\ UNCHANGED <<envVars, tagVars, libVars, fdeVars, tfVars, tsVars, mi, alt_tags, ai,
                   fetched, chooser_calls, ranked, primary_fys, rows_in, by_fy_out,
                   best_out, target_in, top_n_in>>

\* one call get_descendants(tag1, tree)
GetDescendantsCall ==
    /\ prog = "tree" /\ pc = "call"
    /\ returned' = <<[fn |-> "get_descendants",
                      res |-> [kind |-> "list",
                               value |-> get_descendants(arg_in.tag1, arg_in.tree)]]>>
    /\ pc' = "returned"
    /\ UNCHANGED <<envVars, tagVars, libVars, fdeVars, tfVars, tsVars, mi, alt_tags, ai,
                   fetched, chooser_calls, ranked, primary_fys, rows_in, by_fy_out,
                   best_out, target_in, top_n_in>>

NextTree == AncestorsCall \/ LcaCall \/ DistanceCall \/ GetDescendantsCall

SpecTree == InitTree /\ [][NextTree]_vars

\* ------------------------------------------------ every scorer, called
InitRankers == InitScorers \/ InitGranularity

NextRankers == NextScorers \/ NextGranularity

SpecRankers == InitRankers /\ [][NextRankers]_vars

\* ------------------------------------------------------------- taxo_texts
\* TRY_YEARS = ("2024", "2023")
TRY_YEARS == <<"2024", "2023">>

\* a linkbase file of a year: in the cache and well-formed, in the cache
\* and not well-formed, or not in the cache with the server answering 200
\* or 404 for it
LINKBASE_STATES == {"cached", "cached_malformed", "absent_200", "absent_404"}

\* the cache file as _dl finds it
CacheEntry(st) == IF st \in {"cached", "cached_malformed"} THEN <<st>> ELSE <<>>

\* lines 22-44 for one year: the downloads, then the two parses; "dict"
\* when the texts of the year are returned
TryYear(lab, doc) ==
    LET dl_lab == _dl(CacheEntry(lab), lab)
        dl_doc == _dl(CacheEntry(doc), doc)
    IN  IF dl_lab.kind # "ok" THEN dl_lab.kind
        ELSE IF dl_doc.kind # "ok" THEN dl_doc.kind
        ELSE IF dl_lab.file[1] = "cached_malformed" THEN "XMLSyntaxError"
        ELSE IF dl_doc.file[1] = "cached_malformed" THEN "XMLSyntaxError"
        ELSE "dict"

RECURSIVE TaxoLoop(_, _)
\* lines 17-48: the loop over TRY_YEARS; only requests.HTTPError leads to
\* the next year
TaxoLoop(files, i) ==
    IF i > Len(TRY_YEARS) THEN [kind |-> "RuntimeError", year |-> ""]
    ELSE LET res == TryYear(files[TRY_YEARS[i]].lab, files[TRY_YEARS[i]].doc)
         IN  IF res = "dict" THEN [kind |-> "dict", year |-> TRY_YEARS[i]]
             ELSE IF res = "HTTPError" THEN TaxoLoop(files, i + 1)
             ELSE [kind |-> res, year |-> TRY_YEARS[i]]

\* taxo_texts(), given the linkbase files of each year
taxo_texts(files) == TaxoLoop(files, 1)

InitTaxo ==
    /\ prog = "taxo_texts"
    /\ pc = "call"
    /\ texts = EmptyDict
    /\ reported = <<>>
    /\ ScriptsIdle
    /\ FnIdle
    /\ LibIdle
    /\ cache_file = <<>>
    /\ remote = EmptyDict
    /\ depths_in = EmptyDict
    /\ arg_in \in [{TRY_YEARS[i] : i \in 1..Len(TRY_YEARS)} ->
                      [lab : LINKBASE_STATES, doc : LINKBASE_STATES]]

\* one call taxo_texts()
TaxoCall ==
    /\ prog = "taxo_texts" /\ pc = "call"
    /\ returned' = <<taxo_texts(arg_in)>>
    /\ pc' = "returned"
    /\ UNCHANGED <<envVars, tagVars, libVars, fdeVars, tfVars, tsVars, mi, alt_tags, ai,
                   fetched, chooser_calls, ranked, primary_fys, rows_in, by_fy_out,
                   best_out, target_in, top_n_in>>

NextTaxo == TaxoCall

SpecTaxo == InitTaxo /\ [][NextTaxo]_vars

\* ------------------------------------------------------ presentation_depths
MaxArcs == 2

\* the presentation arcs (parent, child) the linkbase files can hold
ARC_PAIRS == CONCEPTS \X CONCEPTS

\* line 103: children[p].append(c); parents[c].append(p); keys keeps the
\* insertion order of children's keys
AddArc(st, arc) ==
    [children |-> Put(st.children, arc[1],
                      Append(Get(st.children, arc[1], <<>>), arc[2])),
     keys     |-> IF arc[1] \in DOMAIN st.children THEN st.keys
                  ELSE Append(st.keys, arc[1]),
     parents  |-> Put(st.parents, arc[2],
                      Append(Get(st.parents, arc[2], <<>>), arc[1]))]

RECURSIVE ArcsLoop(_, _, _)
\* lines 99-103 over all arcs read
ArcsLoop(st, arcs, i) ==
    IF i > Len(arcs) THEN st ELSE ArcsLoop(AddArc(st, arcs[i]), arcs, i + 1)

RECURSIVE RootsAllKeys(_, _, _)
RootsAllKeys(ks, ps, i) ==
    IF i > Len(ks) THEN <<>>
    ELSE <<[node |-> ks[i], d |-> 0]>> \o RootsAllKeys(ks, ps, i + 1)

RECURSIVE RootQueue(_, _, _)
\* line 107: deque((r, 0) for r in children if r not in parents)
RootQueue(ks, ps, i) ==
    IF i > Len(ks) THEN <<>>
    ELSE (IF ks[i] \notin DOMAIN ps
          THEN <<[node |-> ks[i], d |-> 0]>> ELSE <<>>)
         \o RootQueue(ks, ps, i + 1)

\* line 111: the (ch, d+1) for ch in children.get(node, [])
Extension(children, node, d) ==
    LET chs == Get(children, node, <<>>)
    IN  [k \in 1..Len(chs) |-> [node |-> chs[k], d |-> d + 1]]

InitDepths ==
    /\ prog = "presentation_depths"
    /\ pc = "call"
    /\ texts = EmptyDict
    /\ reported = <<>>
    /\ ScriptsIdle
    /\ FnIdle
    /\ LibIdle
    /\ cache_file = <<>>
    /\ remote = EmptyDict
    /\ depths_in = EmptyDict
    /\ arg_in = [arcs |-> <<>>, children |-> EmptyDict, keys |-> <<>>,
                 parents |-> EmptyDict, queue |-> <<>>]

\* lines 86-107: the arcs of the files, in file order, into children and
\* parents, then depth = {} and the queue of the roots
DepthsBuild ==
    /\ prog = "presentation_depths" /\ pc = "call"
    /\ \E arcs \in BoundedSeq(ARC_PAIRS, MaxArcs) :
         LET st == ArcsLoop([children |-> EmptyDict, keys |-> <<>>,
                             parents |-> EmptyDict], arcs, 1)
         IN  arg_in' = [arcs |-> arcs, children |-> st.children,
                        keys |-> st.keys, parents |-> st.parents,
                        queue |-> RootQueue(st.keys, st.parents, 1)]
    /\ depths_in' = EmptyDict
    /\ pc' = "bfs"
    /\ UNCHANGED <<envVars, cache_file, remote, libVars, fdeVars, tfVars, tsVars, mi,
                   alt_tags, ai, fetched, chooser_calls, ranked, primary_fys, fnVars>>

\* lines 108-111: one iteration of while queue
DepthsPop ==
    /\ prog = "presentation_depths" /\ pc = "bfs"
    /\ arg_in.queue # <<>>
    /\ LET node == Head(arg_in.queue).node
           d    == Head(arg_in.queue).d
       IN  IF node \in DOMAIN depths_in /\ depths_in[node] <= d
           THEN /\ arg_in' = [arg_in EXCEPT !.queue = Tail(@)]
                /\ UNCHANGED depths_in
           ELSE /\ depths_in' = Put(depths_in, node, d)
                /\ arg_in' = [arg_in EXCEPT
                                !.queue = Tail(@) \o Extension(arg_in.children, node, d)]
    /\ UNCHANGED <<envVars, cache_file, remote, libVars, fdeVars, tfVars, tsVars, mi,
                   alt_tags, ai, fetched, chooser_calls, ranked, primary_fys, fnVars, pc>>

\* line 112: return depth
DepthsReturn ==
    /\ prog = "presentation_depths" /\ pc = "bfs"
    /\ arg_in.queue = <<>>
    /\ returned' = <<depths_in>>
    /\ pc' = "returned"
    /\ UNCHANGED <<envVars, tagVars, libVars, fdeVars, tfVars, tsVars, mi, alt_tags, ai,
                   fetched, chooser_calls, ranked, primary_fys, rows_in, by_fy_out,
                   best_out, target_in, top_n_in>>

NextDepths == DepthsBuild \/ DepthsPop \/ DepthsReturn

\* the loop is run by one thread that is never descheduled for ever
SpecDepths == InitDepths /\ [][NextDepths]_vars /\ WF_vars(NextDepths)

\* ------------------------------------------------------------ fetch_concept
MaxRetries == 3

\* line 80 (final data extractor.py), line 66 (alt_v2.py)
RETRY_STATUSES == {429, 500, 502, 503, 504}

\* what one requests.get can give: a response with a status code, or a
\* requests.RequestException
STATUS_POOL == {200, 404} \cup RETRY_STATUSES

\* the "units" member of a 200 answer, in document order: per unit of
\* measure, the rows (here their val)
UNITS_BODIES ==
    {<<>>,
     <<[uom |-> "USD", rows |-> <<1, 2>>]>>,
     <<[uom |-> "EUR", rows |-> <<3>>], [uom |-> "USD", rows |-> <<1>>]>>,
     <<[uom |-> "USD/shares", rows |-> <<2>>], [uom |-> "USD", rows |-> <<1>>]>>}

\* status is 0 when requests.get raised instead of answering
ANSWERS ==
    {[kind |-> "response", status |-> st, units |-> <<>>] : st \in STATUS_POOL \ {200}}
      \cup {[kind |-> "response", status |-> 200, units |-> u] : u \in UNITS_BODIES}
      \cup {[kind |-> "RequestException", status |-> 0, units |-> <<>>]}

RECURSIVE RowsOfAllUnits(_, _)
\* final data extractor.py lines 74-79: every row of every unit, tagged
\* with its unit
RowsOfAllUnits(units, i) ==
    IF i > Len(units) THEN <<>>
    ELSE [k \in 1..Len(units[i].rows) |->
            [val |-> units[i].rows[k], uom |-> units[i].uom]]
         \o RowsOfAllUnits(units, i + 1)

\* units.get(u, []) or []
RowsOfUnit(units, u) ==
    LET hit == SelectSeq(units, LAMBDA e : e.uom = u)
    IN  IF hit = <<>> THEN <<>> ELSE hit[1].rows

\* alt_v2.py lines 63-65: the USD rows, then the USD/shares rows
RowsUsdAndPerShare(units) == RowsOfUnit(units, "USD") \o RowsOfUnit(units, "USD/shares")

\* the rows returned for a 200 answer
ParsedRows(variant, units) ==
    IF variant = "final data extractor" THEN RowsOfAllUnits(units, 1)
    ELSE RowsUsdAndPerShare(units)

RetryEveryFailure(r) == r.status # 200

\* the answer leads to the next iteration: the status test before continue,
\* and except requests.RequestException
ShouldRetry(r) == r.kind = "RequestException" \/ r.status \in RETRY_STATUSES

InitFetch ==
    /\ prog = "fetch_concept"
    /\ pc = "loop"
    /\ texts = EmptyDict
    /\ reported = <<>>
    /\ ScriptsIdle
    /\ FnIdle
    /\ LibIdle
    /\ cache_file = <<>>
    /\ remote = EmptyDict
    /\ depths_in = EmptyDict
    /\ \E variant \in {"final data extractor", "alt_v2"}, retries \in 0..MaxRetries :
         arg_in = [variant |-> variant, retries |-> retries, a |-> 0, log |-> <<>>]

\* one iteration of for a in range(retries): the request and what the
\* body of the loop does with its answer
FetchAttempt ==
    /\ prog = "fetch_concept" /\ pc = "loop"
    /\ arg_in.a < arg_in.retries
    /\ \E r \in ANSWERS :
         /\ arg_in' = [arg_in EXCEPT !.a = @ + 1, !.log = Append(@, r)]
         /\ IF r.status = 200
            THEN /\ returned' = <<[kind |-> "list",
                                   value |-> ParsedRows(arg_in.variant, r.units)]>>
                 /\ pc' = "returned"
            ELSE IF ShouldRetry(r)
            THEN UNCHANGED <<returned, pc>>
            ELSE /\ returned' = <<[kind |-> "list", value |-> <<>>]>>
                 /\ pc' = "returned"
    /\ UNCHANGED <<envVars, cache_file, remote, depths_in, libVars, fdeVars, tfVars, tsVars,
                   mi, alt_tags, ai, fetched, chooser_calls, ranked, primary_fys,
                   rows_in, by_fy_out, best_out, target_in, top_n_in>>

\* the loop is over: return []
FetchExhausted ==
    /\ prog = "fetch_concept" /\ pc = "loop"
    /\ arg_in.a >= arg_in.retries
    /\ returned' = <<[kind |-> "list", value |-> <<>>]>>
    /\ pc' = "returned"
    /\ UNCHANGED <<envVars, tagVars, libVars, fdeVars, tfVars, tsVars, mi, alt_tags, ai,
                   fetched, chooser_calls, ranked, primary_fys, rows_in, by_fy_out,
                   best_out, target_in, top_n_in>>

NextFetch == FetchAttempt \/ FetchExhausted

\* the call is run by one thread that is never descheduled for ever
SpecFetch == InitFetch /\ [][NextFetch]_vars /\ WF_vars(NextFetch)

\* ------------------------------------------------------------------ claims
\* final data extractor.py has built its rows
FdeBuilt == prog = "fde" /\ pc \in {"derive", "done"}

\* table form.py has just emitted the rows of a metric, and prim is still
\* that metric's
TfEmitted == prog = "tf" /\ (pc = "done" \/ (pc = "tf_primary" /\ mi > 1))

LastEmitted == IF pc = "done" THEN metrics[mi] ELSE metrics[mi - 1]

\* the emitted rows of the metric emitted last
LastRows == {i \in 1..Len(rows_out) : rows_out[i].metric = LastEmitted}

RankedNow == {ranked[metrics[mi]][j] : j \in 1..Len(ranked[metrics[mi]])}

\* C2 as stated: every alt_tag the alternatives loop iterates over and
\* fetches is a concept of the ranking the Resolver built for the metric,
\* and so is the tag of every alternative fact stored.
C2_AltTagsAreRankedConcepts ==
    /\ (prog = "fde" /\ pc = "alts") \/ (prog = "tf" /\ pc = "gfa_fetch") =>
          \A i \in 1..Len(alt_tags) : alt_tags[i] \in RankedNow
    /\ FdeBuilt =>
          \A fy \in DOMAIN data : \A m \in MetricSet(metrics) :
             \A i \in 1..Len(data[fy].cells[m].alternatives) :
                \E j \in 1..Len(ranked[m]) :
                   ranked[m][j] = data[fy].cells[m].alternatives[i].tag

\* table form.py has returned from get_first_available_alternative to the
\* call of line 225, and the maps of that call are still in place
TfFilled == prog = "tf" /\ pc = "emit"

\* the facts the alternative tags hold for a slot, in the order of alt_tags
SlotAlts(k) ==
    SelectSeq(alt_tags, LAMBDA t : t \in DOMAIN alt_rows_by_tag
                                   /\ k \in DOMAIN alt_rows_by_tag[t])

YearsWithFact(m) ==
    (DOMAIN primary_by_metric_fy[m])
    \cup {y \in DOMAIN alt_by_metric_fylist[m] : Len(alt_by_metric_fylist[m][y]) > 0}

\* C4: a year of the table without primary and alternative fact for a metric
\* that has a fact in some other year gets the fact of the nearest such year,
\* the earlier of two equally near, with carry_from_fy that year and source
\* "carried".
C4_CarryNearestEarlier ==
    FdeBuilt =>
      \A fy \in DOMAIN data : \A m \in MetricSet(metrics) :
         LET c    == data[fy].cells[m]
             have == YearsWithFact(m)
         IN  (fy \notin have /\ have # {}) =>
               /\ Len(c.chosen) = 1
               /\ c.chosen[1].source = "carried"
               /\ c.chosen[1].carry_from_fy \in have
               /\ \A j \in have :
                    LET k == c.chosen[1].carry_from_fy
                    IN  \/ Abs(k - fy) < Abs(j - fy)
                        \/ (Abs(k - fy) = Abs(j - fy) /\ k <= j)

\* a carried fact taken from the year before although the year after has a
\* fact too
C4_Witness ==
    /\ FdeBuilt
    /\ \E fy \in DOMAIN data : \E m \in MetricSet(metrics) :
         /\ Len(data[fy].cells[m].chosen) = 1
         /\ data[fy].cells[m].chosen[1].source = "carried"
         /\ data[fy].cells[m].chosen[1].carry_from_fy = fy - 1
         /\ fy + 1 \in YearsWithFact(m)

\* C5 as stated: a carried fact copies a year that has a primary or an
\* alternative fact of its own, and its value and concept are those chosen
\* for that year.
C5_CarriedEqualsSourceYear ==
    FdeBuilt =>
      \A fy \in DOMAIN data : \A m \in MetricSet(metrics) :
         LET c == data[fy].cells[m]
         IN  (Len(c.chosen) = 1 /\ c.chosen[1].source = "carried") =>
               LET k == c.chosen[1].carry_from_fy
               IN  /\ k \in DOMAIN data
                   /\ Len(data[k].cells[m].chosen) = 1
                   /\ data[k].cells[m].chosen[1].source \in {"primary", "alternative"}
                   /\ c.chosen[1].value = data[k].cells[m].chosen[1].value
                   /\ c.chosen[1].tag = data[k].cells[m].chosen[1].tag


\* C6 as stated: the concept choose_revenue_substitute returns never has the
\* score 1.0 in the ranking, also when two or more candidates carry the
\* target's text.
C6_NeverReturnsScoreOne ==
    (prog = "resolver" /\ pc = "returned" /\ returned[1].kind = "str") =>
       \A i \in 1..Len(returned[1].ranking) :
          returned[1].ranking[i].tag = returned[1].value =>
             returned[1].ranking[i].score < SCORE_ONE

\* C7 as stated: the record primary selection keeps is the latest filed
\* among the rows of its own form type for its fiscal year, in final data
\* extractor.py (one record per year) as in table form.py (one per year and
\* form).
C7_LatestFiledOfOwnForm ==
    /\ (prog = "select" /\ pc = "chosen") =>
          \A fy \in DOMAIN by_fy_out : \A i \in 1..Len(rows_in) :
             (rows_in[i].fy = fy /\ rows_in[i].form = by_fy_out[fy].form) =>
                rows_in[i].filed <= by_fy_out[fy].filed
    /\ (prog = "select" /\ pc = "picked") =>
          \A k \in DOMAIN best_out : \A i \in 1..Len(rows_in) :
             (rows_in[i].fy = k[1] /\ rows_in[i].form = k[2]) =>
                rows_in[i].filed <= best_out[k].filed

\* C8 as stated: for a fiscal year with a 10-K row, choose_latest_filed_per_fy
\* returns a 10-K row, whatever the filing dates of the year's 10-Q rows and
\* whatever the order of the rows.
C8_AnnualPreferred ==
    (prog = "select" /\ pc = "chosen") =>
       \A fy \in DOMAIN by_fy_out :
          (\E i \in 1..Len(rows_in) : rows_in[i].fy = fy /\ rows_in[i].form = "10-K") =>
             by_fy_out[fy].form = "10-K"


\* the eligibility conditions, read off a fact stored for a metric
FactEligible(metric, f) ==
    /\ f.form \in {"10-K", "10-Q"}
    /\ f.fy >= YEAR_CUTOFF
    /\ (f.start # 0) = (METRIC_PERIOD_TYPE(metric) = "duration")
    /\ f.unit = (IF metric \in EPS_METRICS THEN "USD/shares" ELSE "USD")

\* C9: every record selected as primary or alternative is of form 10-K or
\* 10-Q, of a fiscal year from 2014 on, of the period type the metric
\* demands and in the unit the metric demands.
C9_SelectedAreEligible ==
    /\ prog = "fde" =>
         \A m \in DOMAIN primary_by_metric_fy :
            /\ \A fy \in DOMAIN primary_by_metric_fy[m] :
                 FactEligible(m, primary_by_metric_fy[m][fy])
            /\ \A fy \in DOMAIN alt_by_metric_fylist[m] :
                 \A i \in 1..Len(alt_by_metric_fylist[m][fy]) :
                    FactEligible(m, alt_by_metric_fylist[m][fy][i])
    /\ FdeBuilt =>
         \A fy \in DOMAIN data : \A m \in MetricSet(metrics) :
            \A i \in 1..Len(data[fy].cells[m].chosen) :
               FactEligible(m, data[fy].cells[m].chosen[i])
    /\ prog = "tf" =>
         \A i \in 1..Len(rows_out) :
            rows_out[i].source \in {"primary", "alternative"} =>
               FactEligible(rows_out[i].metric, rows_out[i])
    /\ prog = "tf" /\ pc \in {"gfa", "gfa_fetch", "gfa_fill", "probe", "emit"} =>
         /\ \A k \in DOMAIN prim : FactEligible(metrics[mi], prim[k])
         /\ pc = "gfa_fill" =>
              \A t \in DOMAIN alt_rows_by_tag : \A k \in DOMAIN alt_rows_by_tag[t] :
                 FactEligible(metrics[mi], alt_rows_by_tag[t][k])

\* a per-share metric with a selected primary record, and a run with both a
\* primary and an alternative fact chosen
C9_Witness ==
    \/ /\ FdeBuilt
       /\ \E fy \in DOMAIN data : \E m \in MetricSet(metrics) \cap EPS_METRICS :
            /\ Len(data[fy].cells[m].chosen) = 1
            /\ data[fy].cells[m].chosen[1].source = "alternative"
            /\ data[fy].cells[m].chosen[1].unit = "USD/shares"
    \/ /\ prog = "tf"
       /\ \E i, j \in 1..Len(rows_out) :
            /\ rows_out[i].source = "primary"
            /\ rows_out[j].source = "alternative"


\* the period type and the unit the metric demands, on a SEC row
RowPassesFilters(metric, r) ==
    /\ (r.start # 0) = (METRIC_PERIOD_TYPE(metric) = "duration")
    /\ r.uom = (IF metric \in EPS_METRICS THEN "USD/shares" ELSE "USD")

\* the same, on a stored fact
FactPassesFilters(metric, f) ==
    /\ (f.start # 0) = (METRIC_PERIOD_TYPE(metric) = "duration")
    /\ f.unit = (IF metric \in EPS_METRICS THEN "USD/shares" ELSE "USD")

\* the alternative values of final data extractor.py and table form.py come
\* from records of the period type and unit of the metric they stand in for
AltsPassFiltersFdeTf ==
    /\ FdeBuilt =>
         \A fy \in DOMAIN data : \A m \in MetricSet(metrics) :
            \A i \in 1..Len(data[fy].cells[m].alternatives) :
               FactPassesFilters(m, data[fy].cells[m].alternatives[i])
    /\ prog = "tf" =>
         \A i \in 1..Len(rows_out) :
            rows_out[i].source = "alternative" =>
               FactPassesFilters(rows_out[i].metric, rows_out[i])

TfFetchedAlts == TfFilled /\ missing_keys # {} /\ alt_tags # <<>>

\* C11 as stated: a fiscal year (table form.py: a year and form) without an
\* eligible primary record for which an alternative holds an eligible record
\* with a value is in the output with source "alternative" and an
\* alternative's concept, also when other years of the metric have primary
\* records.
C11_AlternativeFillsYearWithoutPrimary ==
    /\ FdeBuilt =>
         \A m \in MetricSet(metrics) : \A fy \in DOMAIN alt_by_metric_fylist[m] :
            (fy \notin primary_fys[m] /\ Len(alt_by_metric_fylist[m][fy]) > 0) =>
               /\ fy \in DOMAIN data
               /\ Len(data[fy].cells[m].chosen) = 1
               /\ data[fy].cells[m].chosen[1].source = "alternative"
               /\ \E i \in 1..Len(alt_by_metric_fylist[m][fy]) :
                     alt_by_metric_fylist[m][fy][i].tag = data[fy].cells[m].chosen[1].tag
    /\ TfFetchedAlts =>
         \A t \in DOMAIN alt_rows_by_tag : \A k \in DOMAIN alt_rows_by_tag[t] :
            (k \notin primary_fys[metrics[mi]] /\ alt_rows_by_tag[t][k].value # NoneVal) =>
               /\ k \in keys
               /\ k \in DOMAIN filled
               /\ filled[k].tag \in DOMAIN alt_rows_by_tag


\* C12 as stated: a metric is never present in a year of the table with a
\* null chosen fact; a year without evidence for the metric does not hold
\* the metric.
C12_NeverPresentWithNull ==
    FdeBuilt =>
      \A fy \in DOMAIN data : \A m \in DOMAIN data[fy].cells :
         Len(data[fy].cells[m].chosen) = 1

\* C12: the years of the table are the years in which some metric has a
\* primary or an alternative fact; every row holds every metric; the chosen
\* fact of a metric is non-null exactly when the metric has a primary or an
\* alternative fact in some year, and a metric without a fact in any year is
\* present in every row with a null chosen fact.
C12_ChosenIffMetricHasFact ==
    FdeBuilt =>
      /\ DOMAIN data = UNION {YearsWithFact(m) : m \in MetricSet(metrics)}
      /\ \A fy \in DOMAIN data :
            /\ DOMAIN data[fy].cells = MetricSet(metrics)
            /\ \A m \in MetricSet(metrics) :
                  (Len(data[fy].cells[m].chosen) = 1) <=> (YearsWithFact(m) # {})

\* a table with a year brought by an alternative alone, in which one metric
\* has a chosen fact and the other, without a fact in any year, has none
C12_Witness ==
    /\ FdeBuilt
    /\ \E fy \in DOMAIN data : \E m, n \in MetricSet(metrics) :
         /\ \A o \in MetricSet(metrics) : fy \notin DOMAIN primary_by_metric_fy[o]
         /\ Len(data[fy].cells[m].chosen) = 1
         /\ YearsWithFact(n) = {}
         /\ data[fy].cells[n].chosen = <<>>


\* the two inputs of the period's derivation, as the script reads them
DeriveOp ==
    IF prog = "fde_derive"
    THEN (IF period_vals.cells[OCF].chosen = <<>> THEN NoneVal
          ELSE period_vals.cells[OCF].chosen[1].value)
    ELSE Get(period_vals, OCF, NoneVal)

DeriveCapex ==
    IF prog = "fde_derive"
    THEN (IF period_vals.cells[CAPEX].chosen = <<>> THEN NoneVal
          ELSE period_vals.cells[CAPEX].chosen[1].value)
    ELSE Get(period_vals, CAPEX, NoneVal)

\* the FreeCashFlow value the i-th derivation of the period left
DerivedValue(i) ==
    CASE prog = "fde_derive" -> derived_log[i].value
      [] prog = "usd_derive" -> Get(derived_log[i].vals, FREE_CASH_FLOW, NoneVal)
      [] OTHER               -> derived_log[i]

\* C13 as stated: in each deriving script, when both inputs of a period are
\* numeric the derived FreeCashFlow is OCF - |CapEx|, for CapEx of either
\* sign, and deriving again gives the same value.
C13_FcfIsOcfMinusAbsCapex ==
    (prog \in {"fde_derive", "usd_derive", "alt_v2_derive"}
       /\ IsNumber(DeriveOp) /\ IsNumber(DeriveCapex)) =>
      \A i \in 1..Len(derived_log) :
         DerivedValue(i) = Num(DeriveOp.n - Abs(DeriveCapex.n))


\* an input of the period is missing or not a number
DeriveNotComputable == ~(IsNumber(DeriveOp) /\ IsNumber(DeriveCapex))

\* the chosen facts final data extractor.py has for the inputs, OCF first
DeriveChosenInputs ==
    (IF period_vals.cells[OCF].chosen # <<>>
     THEN <<[metric |-> OCF, fact |-> period_vals.cells[OCF].chosen[1]]>> ELSE <<>>)
    \o (IF period_vals.cells[CAPEX].chosen # <<>>
        THEN <<[metric |-> CAPEX, fact |-> period_vals.cells[CAPEX].chosen[1]]>> ELSE <<>>)

\* the numeric inputs alt_v2.py has, OCF first
DeriveNumericInputs ==
    (IF IsNumber(DeriveOp) THEN <<[metric |-> OCF, n |-> DeriveOp.n]>> ELSE <<>>)
    \o (IF IsNumber(DeriveCapex) THEN <<[metric |-> CAPEX, n |-> DeriveCapex.n]>> ELSE <<>>)

C15_EmptyPoolGivesNoAlternatives ==
    (prog = "fde" /\ TagListLoop(reported, texts, 1) = <<>>) =>
      /\ pc # "crashed"
      /\ \A m \in MetricSet(metrics) :
            m \in DOMAIN texts =>
               choose_revenue_substitute(texts, reported, m, <<>>, ALT_LIMIT).kind = "None"
      /\ alt_tags = <<>>
      /\ \A i \in 1..Len(fetched) : fetched[i] \in MetricSet(metrics)
      /\ \A m \in DOMAIN alt_by_metric_fylist : alt_by_metric_fylist[m] = EmptyDict
      /\ \A fy \in DOMAIN data : \A m \in DOMAIN data[fy].cells :
            data[fy].cells[m].alternatives = <<>>

\* a finished run with an empty candidate pool that asked the Resolver for
\* every metric and wrote rows
C15_Witness ==
    /\ prog = "fde" /\ pc = "done"
    /\ TagListLoop(reported, texts, 1) = <<>>
    /\ Len(chooser_calls) = Len(metrics)
    /\ data # EmptyDict


\* C16 as stated: called for a target without a text in the taxonomy, each
\* of choose_revenue_substitute, semantic_similarity and
\* choose_revenue_substitute_by_descendants returns an empty result and
\* raises nothing.
C16_MissingTargetGivesEmptyResult ==
    (prog \in {"resolver", "semantic_similarity", "by_descendants"}
       /\ pc = "returned" /\ target_in \notin DOMAIN texts) =>
      /\ returned[1].kind \in {"None", "list"}
      /\ returned[1].ranking = <<>>


\* C17 as stated: in one run of final data extractor.py or table form.py
\* for an entity, no concept is requested from the filings API twice.
C17_EachConceptFetchedOnce ==
    prog \in {"fde", "tf"} =>
      \A i, j \in 1..Len(fetched) : fetched[i] = fetched[j] => i = j


\* C18 as stated: every call tags_list(CIK) returns the concepts of the
\* entity CIK itself, whatever entity the cache file was written for.
C18_TagsOfTheEntityAsked ==
    prog = "tags_list" =>
      \A i \in 1..Len(returned) :
         /\ returned[i].kind = "list"
         /\ returned[i].value = TagsOf(remote[returned[i].cik])


\* position of an identifier in Python's str order
TagIndex(t) == CHOOSE i \in 1..Len(TAG_ORDER) : TAG_ORDER[i] = t

\* C19: the ranking choose_revenue_substitute builds holds only concepts that
\* are reported and have a taxonomy text, each once, with non-increasing
\* scores, equal scores in ascending identifier order, and as many entries
\* as there are candidates but at most top_n + 1.
C19_RankingSortedAndCut ==
    (prog = "resolver" /\ pc = "returned" /\ returned[1].kind \in {"str", "IndexError"}) =>
      LET r    == returned[1].ranking
          pool == TagListLoop(reported, texts, 1)
      IN  /\ Len(r) = Min(Len(pool), top_n_in + 1)
          /\ \A i \in 1..Len(r) :
                /\ r[i].tag \in DOMAIN texts
                /\ \E j \in 1..Len(reported) : reported[j] = r[i].tag
          /\ \A i, j \in 1..Len(r) : r[i].tag = r[j].tag => i = j
          /\ \A i \in 1..(Len(r) - 1) :
                \/ r[i].score > r[i + 1].score
                \/ /\ r[i].score = r[i + 1].score
                   /\ TagIndex(r[i].tag) < TagIndex(r[i + 1].tag)

\* a ranking of three candidates cut to two entries that score the same
C19_Witness ==
    /\ prog = "resolver" /\ pc = "returned"
    /\ returned[1].kind = "str"
    /\ Len(TagListLoop(reported, texts, 1)) = 3
    /\ Len(returned[1].ranking) = 2
    /\ returned[1].ranking[1].score = returned[1].ranking[2].score


\* C20 as stated: the list granularity_difference returns is ascending in
\* the gap |depth(candidate) - depth(target)|, candidates with the same gap
\* stand in identifier order, and so the list is the same whatever the
\* order in which the reported set is iterated.
C20_GapAscendingTiesByIdentifier ==
    (prog = "granularity_difference" /\ pc = "returned") =>
      LET r == returned[1]
      IN  \A i \in 1..(Len(r) - 1) :
             \/ r[i].gap < r[i + 1].gap
             \/ /\ r[i].gap = r[i + 1].gap
                /\ TagIndex(r[i].tag) < TagIndex(r[i + 1].tag)


\* the keys of depths_in that spell a proper camel-case prefix of the target
ProperPrefixKeys ==
    {k \in DOMAIN depths_in :
        /\ Len(KeyChars(k)) < Len(KeyChars(target_in))
        /\ KeyChars(k) = SubSeq(KeyChars(target_in), 1, Len(KeyChars(k)))}

\* the element at index len // 2 of the known depths in ascending order
MiddleDepth ==
    LET ks == DOMAIN depths_in
        f  == CHOOSE g \in Perms(ks) :
                 \A i \in 1..(Cardinality(ks) - 1) : depths_in[g[i]] <= depths_in[g[i + 1]]
    IN  depths_in[f[(Cardinality(ks) \div 2) + 1]]

\* the reference depth C21 describes for a target without a depth entry
FallbackRef ==
    IF ProperPrefixKeys # {}
    THEN depths_in[CHOOSE k \in ProperPrefixKeys :
                      \A j \in ProperPrefixKeys : Len(KeyChars(j)) <= Len(KeyChars(k))]
    ELSE MiddleDepth

\* C21: for a target without a depth entry, granularity_difference measures
\* every gap from the depth of the longest proper camel-case prefix of the
\* target that has a depth entry, from the median of the known depths (the
\* element at index len // 2 in ascending order) when no prefix has one, and
\* returns an empty list when no depth is known.
C21_FallbackReferenceDepth ==
    (prog = "granularity_difference" /\ pc = "returned"
       /\ target_in \notin DOMAIN depths_in) =>
      IF DOMAIN depths_in = {} THEN returned[1] = <<>>
      ELSE /\ Len(returned[1]) =
                 Min(top_n_in, Cardinality({i \in 1..Len(reported) :
                                               reported[i] \in DOMAIN depths_in}))
           /\ \A i \in 1..Len(returned[1]) :
                 returned[1][i].gap = Abs(depths_in[returned[1][i].tag] - FallbackRef)

\* target "ABA" without an entry, both prefixes "AB" and "A" with different
\* depths, the median a third value, and a ranked candidate whose gap tells
\* the three apart
C21_Witness ==
    /\ prog = "granularity_difference" /\ pc = "returned"
    /\ target_in = "ABA"
    /\ {"A", "AB", "BB"} \subseteq DOMAIN depths_in
    /\ "BA" \notin DOMAIN depths_in
    /\ depths_in["AB"] = 2 /\ depths_in["A"] = 6 /\ depths_in["BB"] = 4
    /\ returned[1] = <<[tag |-> "AB", gap |-> 0], [tag |-> "BB", gap |-> 2]>>


\* the hierarchy of the call: ancestors of n, n first and the root last
HierPath(n) == UpTo(arg_in.hier, n, Cardinality(TREE_CHILDREN))

HierAncestors(n) == {HierPath(n)[i] : i \in 1..Len(HierPath(n))}

\* number of edges from n up to its ancestor m
EdgesUp(n, m) == (CHOOSE i \in 1..Len(HierPath(n)) : HierPath(n)[i] = m) - 1

\* the lowest common ancestor of n and m in the hierarchy
HierLca(n, m) ==
    CHOOSE c \in HierAncestors(n) \cap HierAncestors(m) :
       \A d \in HierAncestors(n) \cap HierAncestors(m) : EdgesUp(n, c) <= EdgesUp(n, d)

\* the concepts strictly below n
HierDescendants(n) == {d \in TREE_NODES \ {n} : n \in HierAncestors(d)}

\* C25 as stated: on the parent dict of a hierarchy, get_ancestors returns
\* the concepts from the tag up to and including the root, and find_lca
\* returns the lowest common ancestor of the two tags, the root when they
\* share nothing else.
C25_AncestorsReachRoot ==
    (prog = "tree" /\ pc = "returned" /\ arg_in.tree = ParentMap(arg_in.hier)) =>
      /\ returned[1].fn = "get_ancestors" =>
            returned[1].res = [kind |-> "list", value |-> HierPath(arg_in.tag1)]
      /\ returned[1].fn = "find_lca" =>
            returned[1].res = [kind |-> "str", value |-> HierLca(arg_in.tag1, arg_in.tag2)]

\* C22 as stated: on the tree in which get_descendants finds the subtree
\* of the target, the descendants are the concepts below the target, and
\* calculate_distance(target, candidate, tree) of a descendant is the number
\* of edges from the candidate up to their lowest common ancestor plus the
\* number from the target up to it.
C22_DistanceThroughLca ==
    (prog = "tree" /\ pc = "returned" /\ arg_in.tree = ChildMap(arg_in.hier)) =>
      /\ returned[1].fn = "get_descendants" =>
            {returned[1].res.value[i] : i \in 1..Len(returned[1].res.value)}
               = HierDescendants(arg_in.tag1)
      /\ (returned[1].fn = "calculate_distance"
            /\ arg_in.tag2 \in HierDescendants(arg_in.tag1)) =>
            returned[1].res =
               [kind |-> "int",
                value |-> EdgesUp(arg_in.tag2, HierLca(arg_in.tag1, arg_in.tag2))
                          + EdgesUp(arg_in.tag1, HierLca(arg_in.tag1, arg_in.tag2))]


\* the reported concepts
ReportedSet == {reported[i] : i \in 1..Len(reported)}

\* the candidate pool of the scorer called: reported concepts the taxonomy
\* knows (for the depth scorer: has a depth for)
CandidatePool ==
    IF prog = "granularity_difference" THEN ReportedSet \cap DOMAIN depths_in
    ELSE ReportedSet \cap DOMAIN texts

\* the concepts the call ranked or returned
RankedOrReturned ==
    IF prog = "granularity_difference"
    THEN {returned[1][i].tag : i \in 1..Len(returned[1])}
    ELSE {returned[1].ranking[i].tag : i \in 1..Len(returned[1].ranking)}
         \cup (IF returned[1].kind = "str" THEN {returned[1].value} ELSE {})

YearLoads(yr) ==
    /\ arg_in[yr].lab \in {"cached", "absent_200"}
    /\ arg_in[yr].doc \in {"cached", "absent_200"}

\* C24 as stated: taxo_texts returns the texts of the first year of
\* TRY_YEARS whose two linkbase files load, whatever made an earlier year
\* fail, and raises RuntimeError exactly when no year loads.
C24_FirstLoadableYear ==
    (prog = "taxo_texts" /\ pc = "returned") =>
      LET ok == {i \in 1..Len(TRY_YEARS) : YearLoads(TRY_YEARS[i])}
      IN  IF ok = {} THEN returned[1].kind = "RuntimeError"
          ELSE returned[1] =
                 [kind |-> "dict",
                  year |-> TRY_YEARS[CHOOSE i \in ok : \A j \in ok : i <= j]]


ArcSet == {arg_in.arcs[i] : i \in 1..Len(arg_in.arcs)}

\* the roots: concepts that are a parent in some arc and a child in none
ArcRoots == {a[1] : a \in ArcSet} \ {a[2] : a \in ArcSet}

RECURSIVE ArcLayer(_)
\* the concepts at the end of a walk of k arcs from some root
ArcLayer(k) ==
    IF k = 0 THEN ArcRoots
    ELSE {a[2] : a \in {b \in ArcSet : b[1] \in ArcLayer(k - 1)}}

ArcReachable == UNION {ArcLayer(k) : k \in 0..Cardinality(CONCEPTS)}

\* the minimum number of arcs from any root to each reachable concept
MinDepths ==
    [n \in ArcReachable |->
       CHOOSE k \in 0..Cardinality(CONCEPTS) :
         /\ n \in ArcLayer(k)
         /\ \A j \in 0..(k - 1) : n \notin ArcLayer(j)]

\* C26: presentation_depths terminates for every finite list of arcs,
\* cycles and concepts with several parents included, and returns depth 0
\* for every root and, for every concept reachable from a root, the minimum
\* number of arcs from any root.
C26_TerminatesWithMinimumDepths ==
    /\ <>(prog = "presentation_depths" /\ pc = "returned")
    /\ []((prog = "presentation_depths" /\ pc = "returned")
            => returned[1] = MinDepths)

\* a returned call whose arcs hold a cycle through a concept that is
\* reachable from a root and has two parents
C26_Witness ==
    /\ prog = "presentation_depths" /\ pc = "returned"
    /\ \E a, b \in DOMAIN returned[1] :
         /\ <<a, b>> \in ArcSet /\ <<b, a>> \in ArcSet
         /\ Len(arg_in.parents[a]) >= 2
         /\ returned[1][a] = 1


\* the answer of attempt i asks for another attempt
Retryable(i) ==
    arg_in.log[i].kind = "RequestException" \/ arg_in.log[i].status \in RETRY_STATUSES

CallsFor(metric) == {i \in 1..Len(chooser_calls) : chooser_calls[i] = metric}

\* C28: collect_to_csv calls choose_revenue_substitute for a (CIK, metric)
\* pair only when the metric has a slot whose primary value is missing or
\* no primary record at all, and at most once per pair in the whole run.
C28_ResolverOncePerPairWhenNeeded ==
    [][(prog = "tf" /\ chooser_calls' # chooser_calls) =>
         /\ chooser_calls' = Append(chooser_calls, metrics[mi])
         /\ CallsFor(metrics[mi]) = {}
         /\ \/ prim = EmptyDict
            \/ \E k \in DOMAIN prim : prim[k].value = NoneVal]_vars

\* the call of line 225 after the probe call: no primary record, the
\* Resolver called once for the metric, and the tags taken from the cache
C28_Witness ==
    /\ prog = "tf" /\ pc = "gfa_fetch" /\ ret_to = "emit"
    /\ prim = EmptyDict
    /\ missing_keys # {}
    /\ Cardinality(CallsFor(metrics[mi])) = 1
    /\ alt_tags = substitute_cache[metrics[mi]]


\* the orders in which the rows of rows_in can be handed over
RowOrders ==
    {[i \in 1..Len(rows_in) |-> rows_in[q[i]]] : q \in Perms(1..Len(rows_in))}

DistinctFiled ==
    \A i, j \in 1..Len(rows_in) : rows_in[i].filed = rows_in[j].filed => i = j

\* C29 as stated: for rows with distinct filing timestamps, the row
\* choose_latest_filed_per_fy selects for each fiscal year is the same in
\* whatever order the rows are given.
C29_OrderIndependent ==
    (prog = "select" /\ pc = "chosen" /\ DistinctFiled) =>
      \A rows \in RowOrders : choose_latest_filed_per_fy(rows) = by_fy_out


\* C30 as stated: with a non-empty candidate pool choose_revenue_substitute
\* never raises; when the only candidate, or every candidate of the
\* truncated ranking, has score 1.0, it gives no recommendation instead of
\* indexing past the end of the ranking.
C30_NoRaiseOnDegenerateRanking ==
    (/\ prog = "resolver" /\ pc = "returned"
     /\ target_in \in DOMAIN texts
     /\ TagListLoop(reported, texts, 1) # <<>>) =>
       /\ returned[1].kind \in {"str", "None"}
       /\ (\A i \in 1..Len(returned[1].ranking) :
             returned[1].ranking[i].score = SCORE_ONE) => returned[1].kind = "None"


====
